---- MODULE Spec2Model ----
(***************************************************************************)
(* The workflow orchestration core of FinanceAgents: the validator, the    *)
(* coordinator, the routing functions and the graph that build_graph       *)
(* compiles over FinanceAgentState; further the stock-bot client and its   *)
(* singleton, the command line's run_query and the memory system.          *)
(*                                                                         *)
(* A Python str is a sequence of one-token strings.  A question and an     *)
(* intent are sequences of characters (a CJK character is written by its   *)
(* code point, "U+80A1" for 股); a fixed message of the program is a       *)
(* one-token sequence named after the message; an f-string is the          *)
(* concatenation of its parts.  A Python dict is a function whose DOMAIN   *)
(* is the set of keys it holds.                                            *)
(***************************************************************************)
EXTENDS Integers, Sequences, FiniteSets, TLC

VARIABLES
    input,      \* the arguments of the run: question and user_id
    state,      \* the state container of the run (a dict)
    collab,     \* what the external collaborators answer in this run
    pc,         \* the node about to execute, or END / RAISED / a harness position
    visited,    \* the nodes (or functions) executed so far, in order
    ret,        \* the partial state the last node returned
    nxt,        \* the name the last routing function returned
    store_calls,\* the store_interaction calls the memory system has received, in order
    returned,   \* the partial states the nodes returned so far, in order
    heap,       \* concurrent runs: the state containers created so far, by address
    runs,       \* concurrent runs: each run's arguments, container address and progress
    query_call, \* StockQueryBot.query: the frame of one call (attempts, requests, result)
    singleton,  \* doubao_client's _stock_bot_instance, Toolkit._stock_bot and the calls made
    cli,        \* main.run_query: the frame of one call (bot and memory calls, result)
    memory      \* MemorySystem: the collection, the clock and the calls made

vars == <<input, state, collab, pc, visited, ret, nxt, store_calls, returned, heap, runs,
          query_call, singleton, cli, memory>>

\* The variables of the stock-bot client, the command line and the memory system
client == <<query_call, singleton, cli, memory>>

-----------------------------------------------------------------------------
(* Bounds of the model *)

MaxPad == 1        \* whitespace characters on each side of a question
MaxShort == 5      \* trimmed question lengths 0..MaxShort, around the minimum length
MaxNear == 1       \* trimmed question lengths within MaxNear of the maximum length

-----------------------------------------------------------------------------
(* Strings *)

EmptyDict == [k \in {} |-> 0]
NoneVal == "<None>"
END == "__end__"
RAISED == "<raised>"

Whitespace == {" ", "\t", "\n"}

UpperToLower ==
    [c \in {"A","B","C","D","E","F","G","H","I","J","K","L","M",
            "N","O","P","Q","R","S","T","U","V","W","X","Y","Z"} |->
        CASE c = "A" -> "a" [] c = "B" -> "b" [] c = "C" -> "c" [] c = "D" -> "d"
          [] c = "E" -> "e" [] c = "F" -> "f" [] c = "G" -> "g" [] c = "H" -> "h"
          [] c = "I" -> "i" [] c = "J" -> "j" [] c = "K" -> "k" [] c = "L" -> "l"
          [] c = "M" -> "m" [] c = "N" -> "n" [] c = "O" -> "o" [] c = "P" -> "p"
          [] c = "Q" -> "q" [] c = "R" -> "r" [] c = "S" -> "s" [] c = "T" -> "t"
          [] c = "U" -> "u" [] c = "V" -> "v" [] c = "W" -> "w" [] c = "X" -> "x"
          [] c = "Y" -> "y" [] c = "Z" -> "z"]

\* str.lower()
Lower(s) == [i \in 1..Len(s) |-> IF s[i] \in DOMAIN UpperToLower THEN UpperToLower[s[i]] ELSE s[i]]

\* str.strip(): leading and trailing whitespace removed
Strip(s) ==
    IF \A i \in 1..Len(s) : s[i] \in Whitespace THEN <<>>
    ELSE LET lo == CHOOSE i \in 1..Len(s) :
                        s[i] \notin Whitespace /\ \A j \in 1..(i - 1) : s[j] \in Whitespace
             hi == CHOOSE i \in 1..Len(s) :
                        s[i] \notin Whitespace /\ \A j \in (i + 1)..Len(s) : s[j] \in Whitespace
         IN  SubSeq(s, lo, hi)

\* s[:n - 1] in place of s[:n]
Prefix_OneShort(s, n) == SubSeq(s, 1, IF Len(s) < n - 1 THEN Len(s) ELSE n - 1)

\* s[:n]
Prefix(s, n) == SubSeq(s, 1, IF Len(s) < n THEN Len(s) ELSE n)

\* sub in s
Contains(s, sub) ==
    \E i \in 1..(Len(s) - Len(sub) + 1) : \A j \in 1..Len(sub) : s[i + j - 1] = sub[j]

\* s.split(sep) for a one-token separator
RECURSIVE Split(_, _)
Split(s, sep) ==
    IF \A i \in 1..Len(s) : s[i] # sep THEN <<s>>
    ELSE LET at == CHOOSE i \in 1..Len(s) : s[i] = sep /\ \A j \in 1..(i - 1) : s[j] # sep
         IN  <<SubSeq(s, 1, at - 1)>> \o Split(SubSeq(s, at + 1, Len(s)), sep)

-----------------------------------------------------------------------------
(* Validator: src/agents/managers/validator.py *)

\* The minimum length taken one too small
MIN_QUESTION_LEN_OffByOne == 5 - 1

MIN_QUESTION_LEN == 5
MAX_QUESTION_LEN == 500

ErrEmpty == <<"question is empty">>                      \* "提问内容为空"
ErrTooShort == <<"question too short">>                  \* "提问太短，请提供更详细的问题"
ErrNotFinance == <<"question unrelated to finance">>     \* "提问似乎与金融投资无关，..."
ErrDefault == <<"input validation failed">>               \* "输入验证失败"
WarnTruncated == <<"question too long, truncated to 500">> \* "提问过长，已截断为500个字符"
RejectPrefix == <<"sorry, I cannot process your question:">> \* "抱歉，我无法处理您的问题："

finance_keywords == <<
    <<"U+80A1", "U+7968">>,   \* 股票
    <<"U+57FA", "U+91D1">>,   \* 基金
    <<"U+6295", "U+8D44">>,   \* 投资
    <<"U+98CE", "U+9669">>,   \* 风险
    <<"U+6536", "U+76CA">>,   \* 收益
    <<"U+4EF7", "U+683C">>,   \* 价格
    <<"U+5206", "U+6790">>,   \* 分析
    <<"U+5E02", "U+573A">>,   \* 市场
    <<"U+80A1", "U+4EF7">>,   \* 股价
    <<"U+6CE2", "U+52A8">>,   \* 波动
    <<"U+8BC1", "U+5238">>,   \* 证券
    <<"U+4E70", "U+5165">>,   \* 买入
    <<"U+5356", "U+51FA">>,   \* 卖出
    <<"U+80A1", "U+5E02">>,   \* 股市
    <<"U+884C", "U+60C5">>,   \* 行情
    <<"s", "t", "o", "c", "k">>,
    <<"f", "u", "n", "d">>,
    <<"i", "n", "v", "e", "s", "t">>,
    <<"r", "i", "s", "k">>,
    <<"r", "e", "t", "u", "r", "n">>,
    <<"p", "r", "i", "c", "e">>,
    <<"m", "a", "r", "k", "e", "t">> >>

\* The keyword test without .lower()
HasFinanceKeyword_CaseSensitive(cleaned) ==
    \E k \in 1..Len(finance_keywords) : Contains(cleaned, finance_keywords[k])

\* any(keyword in cleaned.lower() for keyword in finance_keywords)
HasFinanceKeyword(cleaned) ==
    LET low == Lower(cleaned)
    IN  \E k \in 1..Len(finance_keywords) : Contains(low, finance_keywords[k])

\* validate_input(question): the dict it returns
validate_input(question) ==
    LET cleaned == Strip(question)
    IN  IF Len(question) = 0 \/ Len(cleaned) = 0
        THEN [is_valid |-> FALSE, error |-> ErrEmpty, cleaned_question |-> <<>>]
        ELSE IF Len(cleaned) < MIN_QUESTION_LEN
        THEN [is_valid |-> FALSE, error |-> ErrTooShort, cleaned_question |-> cleaned]
        ELSE IF Len(cleaned) > MAX_QUESTION_LEN
        THEN [is_valid |-> TRUE, warning |-> WarnTruncated,
              cleaned_question |-> Prefix(cleaned, MAX_QUESTION_LEN)]
        ELSE IF ~HasFinanceKeyword(cleaned)
        THEN [is_valid |-> FALSE, error |-> ErrNotFinance, cleaned_question |-> cleaned]
        ELSE [is_valid |-> TRUE, cleaned_question |-> cleaned]

\* state.get(key, default)
Get(d, key, default) == IF key \in DOMAIN d THEN d[key] ELSE default

\* What a call of a node function does: it hands back a partial state or raises, and it
\* may change objects of the dict it was given (mutated: the keys whose values the call
\* changed in place, with the new values).  The node functions build every value they
\* return (state.get(key, []) + [entry]) and assign to no key of state, so mutated is
\* empty for each of them.
Returns(partial) == [raised |-> FALSE, partial |-> partial, mutated |-> EmptyDict]
Raises == [raised |-> TRUE, partial |-> EmptyDict, mutated |-> EmptyDict]

\* validator_node naming the session in its rejection message
validator_node_StampsSession(st) ==
    Returns([validation_result |-> [valid |-> FALSE, error |-> ErrDefault],
             final_response |-> RejectPrefix \o <<st.session_id>>])

\* validator_node(state)
validator_node(st) ==
    LET original_question == Get(st, "original_question", <<>>)
        validation_result == validate_input(original_question)
    IN  IF validation_result.is_valid
        THEN LET cleaned_question == validation_result.cleaned_question
             IN  IF "warning" \in DOMAIN validation_result
                 THEN Returns(
                        [original_question |-> cleaned_question,
                         validation_result |-> [valid |-> TRUE,
                                                warning |-> validation_result.warning],
                         agent_outputs |-> Get(st, "agent_outputs", <<>>) \o
                            <<[agent |-> "validator", output |-> validation_result.warning]>>])
                 ELSE Returns(
                        [original_question |-> cleaned_question,
                         validation_result |-> [valid |-> TRUE]])
        ELSE LET error == Get(validation_result, "error", ErrDefault)
             IN  Returns(
                    [validation_result |-> [valid |-> FALSE, error |-> error],
                     agent_outputs |-> Get(st, "agent_outputs", <<>>) \o
                        <<[agent |-> "validator", output |-> error]>>,
                     final_response |-> RejectPrefix \o error])

-----------------------------------------------------------------------------
(* State schema: src/agents/utils/agent_states.py *)

\* ExtractedEntities(): every field defaults to None
ExtractedEntities(symbol, company_name) ==
    [symbol |-> symbol, company_name |-> company_name, capital |-> NoneVal,
     risk_profile |-> NoneVal, time_horizon |-> NoneVal, symbols_to_compare |-> NoneVal]
    @@ ("__class__" :> "ExtractedEntities")

\* IntentClassification(intent=..., entities=...): a pydantic object, not a dict
IntentClassification(intent, entities) ==
    [intent |-> intent, entities |-> entities] @@ ("__class__" :> "IntentClassification")

\* A pydantic BaseModel instance has attributes and no .get method.
IsObject(v) == "__class__" \in DOMAIN v

\* The keys FinanceAgentState declares: the graph built on it holds one channel per
\* declared key and no other.
FinanceAgentStateKeys ==
    {"original_question", "user_id", "session_id", "intent_classification",
     "market_data", "news_analysis", "risk_assessment", "messages",
     "agent_outputs", "error_log", "final_response", "decision_context"}

\* create_initial_state(question, user_id); session_id is a fresh uuid4
create_initial_state(question, user_id, session_id) ==
    [original_question |-> question, user_id |-> user_id, session_id |-> session_id,
     messages |-> <<>>, agent_outputs |-> <<>>, error_log |-> <<>>]

-----------------------------------------------------------------------------
(* Coordinator: src/agents/managers/coordinator.py *)

PRICE_QUERY == <<"p","r","i","c","e","_","q","u","e","r","y">>
STOCK_INFO == <<"s","t","o","c","k","_","i","n","f","o">>
NEWS_QUERY == <<"n","e","w","s","_","q","u","e","r","y">>
SENTIMENT_ANALYSIS == <<"s","e","n","t","i","m","e","n","t","_","a","n","a","l","y","s","i","s">>
RISK_ANALYSIS == <<"r","i","s","k","_","a","n","a","l","y","s","i","s">>
INVESTMENT_ADVICE == <<"i","n","v","e","s","t","m","e","n","t","_","a","d","v","i","c","e">>
COMPARISON == <<"c","o","m","p","a","r","i","s","o","n">>
UNKNOWN_INTENT == <<"u","n","k","n","o","w","n">>

\* The dispatch plans, strings whose tokens are analyst names and "+"
PlanMarket == <<"market_analyst">>
PlanNews == <<"news_analyst">>
PlanRisk == <<"risk_analyst">>
PlanAll == <<"market_analyst", "+", "news_analyst", "+", "risk_analyst">>
PlanUnknown == <<"unknown">>

ErrCoordinatorNoQuestion == <<"coordinator cannot get the user question">>  \* "协调器无法获取用户问题"

\* classify_intent(question): the chain's parsed answer, or the default on any exception
classify_intent(question, c) ==
    IF c.classify.ok
    THEN IntentClassification(c.classify.intent,
                              ExtractedEntities(c.classify.symbol, c.classify.company_name))
    ELSE IntentClassification(UNKNOWN_INTENT, ExtractedEntities(NoneVal, NoneVal))

\* The chain with stock_info listed in the news branch
NextAgentFor_StockInfoToNews(intent) ==
    IF intent \in {PRICE_QUERY} THEN PlanMarket
    ELSE IF intent \in {NEWS_QUERY, SENTIMENT_ANALYSIS, STOCK_INFO} THEN PlanNews
    ELSE IF intent \in {RISK_ANALYSIS} THEN PlanRisk
    ELSE IF intent \in {INVESTMENT_ADVICE, COMPARISON} THEN PlanAll
    ELSE PlanUnknown

\* The chain with a plan for comparison whose first agent has no node
NextAgentFor_UnregisteredFirst(intent) ==
    IF intent \in {PRICE_QUERY, STOCK_INFO} THEN PlanMarket
    ELSE IF intent \in {NEWS_QUERY, SENTIMENT_ANALYSIS} THEN PlanNews
    ELSE IF intent \in {RISK_ANALYSIS} THEN PlanRisk
    ELSE IF intent \in {INVESTMENT_ADVICE} THEN PlanAll
    ELSE IF intent \in {COMPARISON} THEN <<"comparison_analyst", "+", "market_analyst">>
    ELSE PlanUnknown

\* The if/elif chain of coordinator_node that picks next_agent
NextAgentFor(intent) ==
    IF intent \in {PRICE_QUERY, STOCK_INFO} THEN PlanMarket
    ELSE IF intent \in {NEWS_QUERY, SENTIMENT_ANALYSIS} THEN PlanNews
    ELSE IF intent \in {RISK_ANALYSIS} THEN PlanRisk
    ELSE IF intent \in {INVESTMENT_ADVICE, COMPARISON} THEN PlanAll
    ELSE PlanUnknown

\* entities.dict() as it appears in the audit text
EntitiesText(e) == <<"entities:", e.symbol, e.company_name>>

\* coordinator_node(state)
coordinator_node(st, c) ==
    LET original_question == Get(st, "original_question", <<>>)
    IN  IF Len(original_question) = 0
        THEN Returns([error_log |-> Get(st, "error_log", <<>>) \o <<ErrCoordinatorNoQuestion>>])
        ELSE LET intent_result == classify_intent(original_question, c)
                 intent == Lower(intent_result.intent)
                 next_agent == NextAgentFor(intent)
                 decision == [intent |-> intent, next_agent |-> next_agent,
                              reason |-> <<"based on intent">> \o intent
                                         \o <<"call">> \o next_agent]
             IN  Returns(
                    [intent_classification |-> intent_result,
                     coordinator_decision |-> decision,
                     agent_outputs |-> Get(st, "agent_outputs", <<>>) \o
                        <<[agent |-> "coordinator",
                           output |-> <<"intent:">> \o intent
                                      \o EntitiesText(intent_result.entities)]>>])

-----------------------------------------------------------------------------
(* Routing functions: src/graph/trading_graph.py *)

\* The validator's router continuing to the coordinator after a rejection
should_continue_to_intent_classifier_AlwaysContinues(st) == <<"coordinator">>

\* should_continue_to_intent_classifier(state)
should_continue_to_intent_classifier(st) ==
    LET validation_result == Get(st, "validation_result", EmptyDict)
        is_valid == Get(validation_result, "valid", FALSE)
    IN  IF is_valid THEN <<"coordinator">> ELSE <<END>>

\* The coordinator's router with the default path returning the plan itself
route_based_on_coordinator_decision_NoDefault(st) ==
    LET decision == Get(st, "coordinator_decision", EmptyDict)
        next_agent == Get(decision, "next_agent", <<"unknown">>)
    IN  IF Contains(next_agent, <<"+">>) THEN Split(next_agent, "+")[1]
        ELSE next_agent

\* route_based_on_coordinator_decision(state)
route_based_on_coordinator_decision(st) ==
    LET decision == Get(st, "coordinator_decision", EmptyDict)
        next_agent == Get(decision, "next_agent", <<"unknown">>)
    IN  IF Contains(next_agent, <<"+">>) THEN Split(next_agent, "+")[1]
        ELSE IF next_agent = <<"market_analyst">> THEN <<"market_analyst">>
        ELSE IF next_agent = <<"news_analyst">> THEN <<"news_analyst">>
        ELSE IF next_agent = <<"risk_analyst">> THEN <<"risk_analyst">>
        ELSE <<"market_analyst">>

\* x in agents, for the list agents
InList(x, agents) == \E i \in 1..Len(agents) : agents[i] = x

\* The market analyst's router testing risk_analyst before news_analyst
route_after_market_analyst_RiskFirst(st) ==
    LET decision == Get(st, "coordinator_decision", EmptyDict)
        next_agent == Get(decision, "next_agent", <<>>)
        agents == Split(next_agent, "+")
    IN  IF Contains(next_agent, <<"+">>) /\ \E i \in 1..Len(agents) : agents[i] = <<"risk_analyst">>
        THEN <<"risk_analyst">>
        ELSE IF Contains(next_agent, <<"+">>)
                /\ \E i \in 1..Len(agents) : agents[i] = <<"news_analyst">>
        THEN <<"news_analyst">>
        ELSE <<"response_generator">>

\* route_after_market_analyst(state)
route_after_market_analyst(st) ==
    LET decision == Get(st, "coordinator_decision", EmptyDict)
        next_agent == Get(decision, "next_agent", <<>>)
        agents == Split(next_agent, "+")
    IN  IF Contains(next_agent, <<"+">>) /\ InList(<<"news_analyst">>, agents)
        THEN <<"news_analyst">>
        ELSE IF Contains(next_agent, <<"+">>) /\ InList(<<"risk_analyst">>, agents)
        THEN <<"risk_analyst">>
        ELSE <<"response_generator">>

\* route_after_news_analyst(state)
route_after_news_analyst(st) ==
    LET decision == Get(st, "coordinator_decision", EmptyDict)
        next_agent == Get(decision, "next_agent", <<>>)
        agents == Split(next_agent, "+")
    IN  IF Contains(next_agent, <<"+">>) /\ InList(<<"risk_analyst">>, agents)
        THEN <<"risk_analyst">>
        ELSE <<"response_generator">>

-----------------------------------------------------------------------------
(* Analysts: src/agents/analysts/*.py *)

SkipMarket == <<"cannot analyse the market: no stock symbol">>  \* "无法进行市场分析：未提供股票代码"
SkipNews == <<"cannot analyse news: no company name or symbol">>  \* "无法进行新闻分析：..."
SkipRisk == <<"cannot analyse risk: no stock symbol">>  \* "无法进行风险分析：未提供股票代码"
ErrMarket == <<"error during market analysis">>  \* "市场分析过程中发生错误: ..."
ErrNews == <<"error during news analysis">>  \* "新闻分析过程中发生错误: ..."
ErrRisk == <<"error during risk analysis">>  \* "风险分析过程中发生错误: ..."

\* not x, for an optional string
Falsy(x) == x = NoneVal \/ x = ""

\* An optional float (None, or a number) is a sequence of at most one number.  The
\* numbers are percentages in thousandths of a percent: the tools round what they
\* report to two decimals (agent_utils.py:190, 463), and the factor 0.4 of
\* risk_analyst.py:53 needs one decimal more.
NoNumber == <<>>
Number(v) == <<v>>
Pct(whole, hundredths) == whole * 1000 + hundredths * 10
Abs(x) == IF x < 0 THEN -x ELSE x

\* market_analyst_node returning a fresh agent_outputs list instead of the state's list
\* with its entry appended
market_analyst_node_FreshOutputs(st, c) ==
    Returns([market_data |-> EmptyDict,
             agent_outputs |-> <<[agent |-> "market_analyst", output |-> SkipMarket]>>])

\* market_analyst_node appending its entry to the list held by the state it was given
\* (state["agent_outputs"].append(...)) and returning market_data alone
market_analyst_node_AppendsInPlace(st, c) ==
    IF IsObject(Get(st, "intent_classification", EmptyDict)) THEN Raises
    ELSE [raised |-> FALSE,
          partial |-> [market_data |-> EmptyDict],
          mutated |-> [agent_outputs |-> Get(st, "agent_outputs", <<>>) \o
                          <<[agent |-> "market_analyst", output |-> SkipMarket]>>]]

\* market_analyst_node(state).  The chain is built, with llm.bind_tools(tools), before
\* the try block; chain.invoke and the reading of the response are inside it.
market_analyst_node(st, c) ==
    LET intent_classification == Get(st, "intent_classification", EmptyDict)
        outputs == Get(st, "agent_outputs", <<>>)
    IN  IF IsObject(intent_classification) THEN Raises      \* .get on a pydantic object
        ELSE LET entities == Get(intent_classification, "entities", EmptyDict)
             IN  IF IsObject(entities) THEN Raises
                 ELSE IF Falsy(Get(entities, "symbol", NoneVal))
                 THEN Returns([market_data |-> EmptyDict,
                               agent_outputs |-> outputs \o
                                  <<[agent |-> "market_analyst", output |-> SkipMarket]>>])
                 ELSE IF ~c.bind_ok THEN Raises              \* llm.bind_tools(tools)
                 ELSE IF c.tools_ok
                 THEN Returns([market_data |-> c.market_data,
                               agent_outputs |-> outputs \o
                                  <<[agent |-> "market_analyst",
                                     output |-> <<"market analysis text">>]>>])
                 ELSE Returns([market_data |-> EmptyDict,
                               error_log |-> Get(st, "error_log", <<>>) \o <<ErrMarket>>,
                               agent_outputs |-> outputs \o
                                  <<[agent |-> "market_analyst", output |-> ErrMarket]>>])

NoNewsFound == <<"no recent news found about">>  \* "未找到关于{query}的最新新闻。"
CannotAnalyseNews == <<"cannot analyse the news data of">>  \* "无法分析{query}的新闻数据。"
ErrParseNews == <<"error while parsing the news data">>  \* "解析新闻数据时出错: ..."

\* news_analyst_node(state).  c.news is what the news tool and the analysis chain do:
\* the tool raises; its result has no news items; the result cannot be parsed or the
\* analysis chain raises; or the news is analysed.
news_analyst_node(st, c) ==
    LET intent_classification == Get(st, "intent_classification", EmptyDict)
        outputs == Get(st, "agent_outputs", <<>>)
    IN  IF IsObject(intent_classification) THEN Raises
        ELSE LET entities == Get(intent_classification, "entities", EmptyDict)
             IN  IF IsObject(entities) THEN Raises
                 ELSE LET symbol == Get(entities, "symbol", NoneVal)
                          company_name == Get(entities, "company_name", NoneVal)
                          query == IF Falsy(company_name) THEN symbol ELSE company_name
                      IN  IF Falsy(query)
                          THEN Returns([news_analysis |-> EmptyDict,
                                        agent_outputs |-> outputs \o
                                           <<[agent |-> "news_analyst", output |-> SkipNews]>>])
                          ELSE CASE c.news = "tool raises" ->
                                      Returns([news_analysis |-> EmptyDict,
                                               error_log |-> Get(st, "error_log", <<>>)
                                                                \o <<ErrNews>>,
                                               agent_outputs |-> outputs \o
                                                  <<[agent |-> "news_analyst",
                                                     output |-> ErrNews]>>])
                                 [] c.news = "no items" ->
                                      Returns([news_analysis |->
                                                  [summary |-> NoNewsFound \o <<query>>,
                                                   sentiment_score |-> 0,
                                                   source_count |-> 0,
                                                   recent_news |-> <<>>],
                                               agent_outputs |-> outputs \o
                                                  <<[agent |-> "news_analyst",
                                                     output |-> NoNewsFound \o <<query>>]>>])
                                 [] c.news = "analysis raises" ->
                                      Returns([news_analysis |->
                                                  [summary |-> CannotAnalyseNews \o <<query>>,
                                                   sentiment_score |-> 0,
                                                   source_count |-> 0,
                                                   recent_news |-> <<>>],
                                               error_log |-> Get(st, "error_log", <<>>)
                                                                \o <<ErrParseNews>>,
                                               agent_outputs |-> outputs \o
                                                  <<[agent |-> "news_analyst",
                                                     output |-> CannotAnalyseNews
                                                                   \o <<query>>]>>])
                                 [] OTHER ->
                                      Returns([news_analysis |->
                                                  [summary |-> <<"news summary">>,
                                                   sentiment_score |-> c.sentiment_score,
                                                   source_count |-> Len(c.news_items),
                                                   recent_news |-> c.news_items],
                                               agent_outputs |-> outputs \o
                                                  <<[agent |-> "news_analyst",
                                                     output |-> <<"news analysis of",
                                                                  query>>]>>])

\* Risk levels: "未知", "低", "中", "高", "极高"
RiskUnknown == <<"unknown">>
RiskLow == <<"low">>
RiskMedium == <<"medium">>
RiskHigh == <<"high">>
RiskVeryHigh == <<"very high">>

\* risk_analyst.py:115-122, with the comparisons one band too low (<= for <)
RiskLevelFor_BoundaryInLowerBand(v) ==
    IF v <= Pct(15, 0) THEN RiskLow
    ELSE IF v <= Pct(25, 0) THEN RiskMedium
    ELSE IF v <= Pct(40, 0) THEN RiskHigh
    ELSE RiskVeryHigh

\* risk_analyst.py:115-122: the risk level of a volatility percentage
RiskLevelFor(v) ==
    IF v < Pct(15, 0) THEN RiskLow
    ELSE IF v < Pct(25, 0) THEN RiskMedium
    ELSE IF v < Pct(40, 0) THEN RiskHigh
    ELSE RiskVeryHigh

\* risk_analyst_node returning a market_data key next to its own
risk_analyst_node_WritesMarketData(st, c) ==
    Returns([risk_assessment |-> EmptyDict,
             market_data |-> EmptyDict,
             agent_outputs |-> Get(st, "agent_outputs", <<>>) \o
                <<[agent |-> "risk_analyst", output |-> SkipRisk]>>])

\* risk_analyst_node(state).  The volatility estimate from the market analyst's
\* indicators is computed before the symbol check and outside the try block;
\* c.tool_volatility is the volatility_percent of a get_stock_historical_data tool call
\* of the response (NoNumber: no such call, no such key, or output that does not parse).
\* risk_analyst_node keeping the estimate from market_data when the tool reports a
\* volatility_percent
risk_analyst_node_EstimateFirst(st, c) ==
    LET intent_classification == Get(st, "intent_classification", EmptyDict)
        outputs == Get(st, "agent_outputs", <<>>)
        indicators == Get(Get(st, "market_data", EmptyDict), "indicators", EmptyDict)
        has_position == "bollinger_position_percent" \in DOMAIN indicators
    IN  IF IsObject(intent_classification) THEN Raises
        ELSE IF IsObject(Get(intent_classification, "entities", EmptyDict)) THEN Raises
        ELSE IF has_position /\ indicators.bollinger_position_percent = NoNumber THEN Raises
        ELSE IF Falsy(Get(Get(intent_classification, "entities", EmptyDict), "symbol", NoneVal))
        THEN Returns([risk_assessment |-> EmptyDict,
                      agent_outputs |-> outputs \o
                         <<[agent |-> "risk_analyst", output |-> SkipRisk]>>])
        ELSE IF ~c.bind_ok THEN Raises
        ELSE IF ~c.tools_ok
        THEN Returns([risk_assessment |-> EmptyDict,
                      error_log |-> Get(st, "error_log", <<>>) \o <<ErrRisk>>,
                      agent_outputs |-> outputs \o
                         <<[agent |-> "risk_analyst", output |-> ErrRisk]>>])
        ELSE LET volatility_percent ==
                     IF has_position
                     THEN Number((Abs(Pct(50, 0)
                              - indicators.bollinger_position_percent[1]) * 4) \div 10)
                     ELSE IF c.tool_supplies THEN c.tool_volatility ELSE NoNumber
             IN  Returns([risk_assessment |->
                             [risk_level |-> IF volatility_percent # NoNumber
                                             THEN RiskLevelFor(volatility_percent[1])
                                             ELSE RiskUnknown,
                              volatility |-> volatility_percent,
                              risk_factors |-> c.risk_factors,
                              recommendations |-> c.recommendations],
                          agent_outputs |-> outputs \o
                             <<[agent |-> "risk_analyst",
                                output |-> <<"risk analysis text">>]>>])

risk_analyst_node(st, c) ==
    LET intent_classification == Get(st, "intent_classification", EmptyDict)
        outputs == Get(st, "agent_outputs", <<>>)
        market_data == Get(st, "market_data", EmptyDict)
        indicators == Get(market_data, "indicators", EmptyDict)
        has_position == /\ "indicators" \in DOMAIN market_data
                        /\ indicators # EmptyDict
                        /\ "bollinger_position_percent" \in DOMAIN indicators
    IN  IF IsObject(intent_classification) THEN Raises
        ELSE LET entities == Get(intent_classification, "entities", EmptyDict)
             IN  IF IsObject(entities) THEN Raises
                 ELSE IF has_position /\ indicators.bollinger_position_percent = NoNumber
                 THEN Raises                                 \* 50 - None
                 ELSE LET from_market ==
                              IF has_position
                              THEN Number((Abs(Pct(50, 0)
                                       - indicators.bollinger_position_percent[1]) * 4) \div 10)
                              ELSE NoNumber
                          volatility_percent ==
                              IF c.tool_supplies THEN c.tool_volatility
                              ELSE from_market
                      IN  IF Falsy(Get(entities, "symbol", NoneVal))
                          THEN Returns([risk_assessment |-> EmptyDict,
                                        agent_outputs |-> outputs \o
                                           <<[agent |-> "risk_analyst", output |-> SkipRisk]>>])
                          ELSE IF ~c.bind_ok THEN Raises     \* llm.bind_tools(tools)
                          ELSE IF c.tools_ok
                          THEN Returns([risk_assessment |->
                                           [risk_level |-> IF volatility_percent # NoNumber
                                                           THEN RiskLevelFor(volatility_percent[1])
                                                           ELSE RiskUnknown,
                                            volatility |-> volatility_percent,
                                            risk_factors |-> c.risk_factors,
                                            recommendations |-> c.recommendations],
                                        agent_outputs |-> outputs \o
                                           <<[agent |-> "risk_analyst",
                                              output |-> <<"risk analysis text">>]>>])
                          ELSE Returns([risk_assessment |-> EmptyDict,
                                        error_log |-> Get(st, "error_log", <<>>) \o <<ErrRisk>>,
                                        agent_outputs |-> outputs \o
                                           <<[agent |-> "risk_analyst", output |-> ErrRisk]>>])

-----------------------------------------------------------------------------
(* Response generator: src/agents/managers/response_generator.py *)

ErrGenerate == <<"error while generating the response">>  \* "生成响应时发生错误: ..."
Apology == <<"sorry, I ran into a technical problem analysing your question">>  \* "抱歉，我在分析您的问题时遇到了技术问题。..."

ErrorInfo == <<"error information: ">>  \* "\n\n错误信息: "
Unknown == "unknown"  \* "未知"

\* What response_generator_node computes before the try block: the entities of the query,
\* the analysts' results, and the profile fallback for risk_profile and capital
\* (lines 35-85).  c.user_profile is what generate_user_profile returned.
response_generator_locals(st, c) ==
    LET user_id == Get(st, "user_id", "")
        intent_classification == Get(st, "intent_classification", EmptyDict)
        entities == Get(intent_classification, "entities", EmptyDict)
        market_data == Get(st, "market_data", EmptyDict)
        news_analysis == Get(st, "news_analysis", EmptyDict)
        risk_assessment == Get(st, "risk_assessment", EmptyDict)
        query_risk_profile == Get(entities, "risk_profile", Unknown)
        query_capital == Get(entities, "capital", Number(0))
        interaction_count == IF user_id # "" THEN Get(c.user_profile, "interaction_count", 0)
                             ELSE 0
        risk_profile == IF /\ interaction_count > 0
                           /\ query_risk_profile = Unknown
                           /\ Get(c.user_profile, "risk_profile", NoneVal) # Unknown
                        THEN Get(c.user_profile, "risk_profile", NoneVal)
                        ELSE query_risk_profile
        capital == IF /\ interaction_count > 0
                      /\ query_capital = Number(0)
                      /\ Get(c.user_profile, "typical_investment_amount", NoNumber) # NoNumber
                   THEN Get(c.user_profile, "typical_investment_amount", NoNumber)
                   ELSE query_capital
    IN  [user_id |-> user_id,
         intent |-> Get(intent_classification, "intent", NoneVal),
         symbol |-> Get(entities, "symbol", Unknown),
         company_name |-> Get(entities, "company_name", Unknown),
         risk_profile |-> risk_profile,
         capital |-> capital,
         current_price |-> Get(market_data, "current_price", Unknown),
         volatility |-> Get(risk_assessment, "volatility", Unknown),
         risk_level |-> Get(risk_assessment, "risk_level", Unknown),
         sentiment_score |-> Get(news_analysis, "sentiment_score", 0)]

\* The statements of response_generator_node that stand outside its try block raise:
\* .get on an IntentClassification object (lines 38, 46), or the profile lookup (line 62)
response_generator_raises(st, c) ==
    LET intent_classification == Get(st, "intent_classification", EmptyDict)
    IN  IF IsObject(intent_classification) THEN TRUE
        ELSE IF IsObject(Get(intent_classification, "entities", EmptyDict)) THEN TRUE
        ELSE Get(st, "user_id", "") # "" /\ ~c.profile_ok

\* store_interaction called whether or not the model answered
store_interaction_calls_BeforeModelCall(st, c) ==
    IF response_generator_raises(st, c) THEN <<>>
    ELSE IF Get(st, "user_id", "") = "" THEN <<>>
    ELSE <<[user_id |-> st.user_id,
            query |-> Get(st, "original_question", <<>>),
            response |-> c.response,
            decision_context |-> EmptyDict,
            participating_agents |-> <<>>]>>

\* The store_interaction calls response_generator_node makes (lines 111-133): one, after
\* the model answered, when user_id is not empty
store_interaction_calls(st, c) ==
    IF response_generator_raises(st, c) THEN <<>>
    ELSE LET l == response_generator_locals(st, c)
         IN  IF c.llm_ok /\ l.user_id # ""
             THEN <<[user_id |-> l.user_id,
                     query |-> Get(st, "original_question", <<>>),
                     response |-> c.response,
                     decision_context |->
                        [intent |-> l.intent, symbol |-> l.symbol,
                         company_name |-> l.company_name,
                         risk_profile |-> l.risk_profile, capital |-> l.capital,
                         risk_level |-> l.risk_level, volatility |-> l.volatility,
                         sentiment_score |-> l.sentiment_score],
                     participating_agents |->
                        [i \in DOMAIN Get(st, "agent_outputs", <<>>) |->
                            Get(st, "agent_outputs", <<>>)[i].agent]]>>
             ELSE <<>>

\* response_generator_node with chain.invoke outside the try block
response_generator_node_ModelCallUnguarded(st, c) ==
    IF response_generator_raises(st, c) \/ ~c.llm_ok THEN Raises
    ELSE Returns([final_response |-> c.response])

\* response_generator_node(state).  The profile lookup stands outside the try block;
\* the model call and store_interaction stand inside it.
response_generator_node(st, c) ==
    LET l == response_generator_locals(st, c)
        fallback(e) == Returns([final_response |-> Apology \o ErrorInfo \o e,
                                error_log |-> Get(st, "error_log", <<>>)
                                                 \o <<ErrGenerate \o e>>])
    IN  IF response_generator_raises(st, c) THEN Raises
        ELSE IF ~c.llm_ok THEN fallback(c.llm_error)
        ELSE IF l.user_id # "" /\ ~c.store_ok THEN fallback(c.store_error)
        ELSE Returns(
               [final_response |-> c.response,
                decision_context |->
                   [intent |-> l.intent, symbol |-> l.symbol,
                    company_name |-> l.company_name,
                    risk_profile |-> l.risk_profile, capital |-> l.capital,
                    market_price |-> l.current_price, risk_level |-> l.risk_level,
                    sentiment_score |-> l.sentiment_score]])

-----------------------------------------------------------------------------
(* The compiled graph: src/graph/trading_graph.py, build_graph *)

Nodes == {"validator", "coordinator", "market_analyst", "news_analyst",
          "risk_analyst", "response_generator"}

\* workflow.add_node(name, fn)
NodeFn(n, st, c) ==
    CASE n = "validator" -> validator_node(st)
      [] n = "coordinator" -> coordinator_node(st, c)
      [] n = "market_analyst" -> market_analyst_node(st, c)
      [] n = "news_analyst" -> news_analyst_node(st, c)
      [] n = "risk_analyst" -> risk_analyst_node(st, c)
      [] n = "response_generator" -> response_generator_node(st, c)

\* The calls node n makes to the memory system's store_interaction when it runs on st
StoreCallsOf(n, st, c) ==
    IF n = "response_generator" THEN store_interaction_calls(st, c) ELSE <<>>

\* The routing function attached to each node (add_conditional_edges / add_edge)
RouteAfter(n, st) ==
    CASE n = "validator" -> should_continue_to_intent_classifier(st)
      [] n = "coordinator" -> route_based_on_coordinator_decision(st)
      [] n = "market_analyst" -> route_after_market_analyst(st)
      [] n = "news_analyst" -> route_after_news_analyst(st)
      [] n = "risk_analyst" -> <<"response_generator">>
      [] n = "response_generator" -> <<END>>

\* The edges with one more target registered for the risk analyst: back to the market analyst
EdgeTargets_BackEdge(n) ==
    CASE n = "validator" -> {<<"coordinator">>, <<END>>}
      [] n = "coordinator" -> {<<"market_analyst">>, <<"news_analyst">>, <<"risk_analyst">>}
      [] n = "market_analyst" -> {<<"news_analyst">>, <<"risk_analyst">>,
                                   <<"response_generator">>}
      [] n = "news_analyst" -> {<<"risk_analyst">>, <<"response_generator">>}
      [] n = "risk_analyst" -> {<<"response_generator">>, <<"market_analyst">>}
      [] n = "response_generator" -> {<<END>>}

\* The targets registered for each node's edge
EdgeTargets(n) ==
    CASE n = "validator" -> {<<"coordinator">>, <<END>>}
      [] n = "coordinator" -> {<<"market_analyst">>, <<"news_analyst">>, <<"risk_analyst">>}
      [] n = "market_analyst" -> {<<"news_analyst">>, <<"risk_analyst">>,
                                   <<"response_generator">>}
      [] n = "news_analyst" -> {<<"risk_analyst">>, <<"response_generator">>}
      [] n = "risk_analyst" -> {<<"response_generator">>}
      [] n = "response_generator" -> {<<END>>}

\* StateGraph(FinanceAgentState): a node's update is written to the channels of the
\* declared keys; a returned key that FinanceAgentState does not declare has no channel.
StateChannels == FinanceAgentStateKeys

\* The state after a node's partial is applied to the channels
Merge(st, partial) ==
    LET written == DOMAIN partial \cap StateChannels
    IN  [k \in DOMAIN st \cup written |-> IF k \in written THEN partial[k] ELSE st[k]]

\* The dict a node was called on, as the call r leaves it
AfterCall(st, r) ==
    [k \in DOMAIN st \cup DOMAIN r.mutated |->
        IF k \in DOMAIN r.mutated THEN r.mutated[k] ELSE st[k]]

\* dict.update: every returned key is kept (a caller driving the functions on a dict)
Update(st, partial) ==
    [k \in DOMAIN st \cup DOMAIN partial |-> IF k \in DOMAIN partial THEN partial[k] ELSE st[k]]

-----------------------------------------------------------------------------
(* Inputs *)

Fill(n) == [i \in 1..n |-> "x"]
Pad(n) == [i \in 1..n |-> IF i % 2 = 1 THEN " " ELSE "\t"]

KeywordSamples ==
    {<<>>, <<"S", "t", "o", "c", "K">>, <<"U+80A1", "U+7968">>, <<"r", "i", "s", "k">>}

QuestionLens ==
    (0..MaxShort) \cup ((MAX_QUESTION_LEN - MaxNear)..(MAX_QUESTION_LEN + MaxNear))

\* Questions: optional whitespace, then a body of a chosen length that starts with a
\* keyword sample (or none) and is filled up with a character of no keyword.
Questions ==
    {Pad(p) \o kw \o Fill(n - Len(kw)) \o Pad(p) :
        <<p, n, kw>> \in {t \in (0..MaxPad) \X QuestionLens \X KeywordSamples :
                            Len(t[3]) <= t[2]}}

UserIds == {"", "u1"}
SessionIds == {"uuid-1", "uuid-2"}

IntentSamples ==
    {PRICE_QUERY, NEWS_QUERY, INVESTMENT_ADVICE,
     <<"P","R","I","C","E","_","Q","U","E","R","Y">>,
     <<"g","r","e","e","t","i","n","g">>}

ClassifyOutcomes ==
    {[ok |-> FALSE, intent |-> UNKNOWN_INTENT, symbol |-> NoneVal, company_name |-> NoneVal]}
    \cup [ok : {TRUE}, intent : IntentSamples, symbol : {NoneVal, "AAPL"},
          company_name : {NoneVal}]

\* The classification collaborator's answer to the run's question is fixed for the run.
Collaborators == [classify : ClassifyOutcomes]

\* Volatility percentages around the band limits of risk_analyst.py:115-122
VolatilitySamples ==
    {Pct(0, 0), Pct(14, 99), Pct(15, 0), Pct(24, 99), Pct(25, 0), Pct(30, 0),
     Pct(39, 99), Pct(40, 0), Pct(40, 1)}

\* Bollinger positions: the middle of the band, positions whose estimate (|50 - p| * 0.4)
\* is 15, 14.996, 25 and 40, and a missing value
BollingerSamples ==
    {NoNumber, Number(Pct(50, 0)), Number(Pct(12, 50)), Number(Pct(12, 51)),
     Number(Pct(112, 50)), Number(Pct(150, 0))}

\* What the market analyst builds from the tool calls of the response
MarketDataSamples ==
    {EmptyDict, [current_price |-> 100, price_change |-> NoneVal,
                 price_change_percent |-> NoneVal]}
    \cup {[current_price |-> 100, indicators |-> ind, analysis_summary |-> ""] :
             ind \in {EmptyDict} \cup [bollinger_position_percent : BollingerSamples]}

\* What generate_user_profile returns: a first-time user, a user with history whose
\* profile holds neither value, one whose profile holds both, and one whose profile
\* lacks the two keys
ProfileSamples ==
    {[interaction_count |-> 0],
     [interaction_count |-> 2, risk_profile |-> Unknown,
      typical_investment_amount |-> NoNumber],
     [interaction_count |-> 2, risk_profile |-> "low",
      typical_investment_amount |-> Number(5000)],
     [interaction_count |-> 2]}

\* What the other collaborators answer when node n calls them: the analysts' tool and
\* model calls, the profile lookup, the response model and the persistence call each
\* succeed or fail, and the tools report what they found.  The historical-data tool
\* may report no volatility_percent key (tool_supplies is FALSE), a null one, or a number;
\* a failed profile lookup returns no profile, and a failed tool or model call reports
\* nothing.  A call that is not reached (the model call after a failed profile lookup,
\* store_interaction after a failed model call) has no outcome of its own.
Calls(n, c) ==
    {k \in
    [classify : {c.classify},
     bind_ok : IF n \in {"market_analyst", "risk_analyst"} THEN BOOLEAN ELSE {TRUE},
     tools_ok : IF n \in {"market_analyst", "risk_analyst"} THEN BOOLEAN ELSE {TRUE},
     profile_ok : IF n = "response_generator" THEN BOOLEAN ELSE {TRUE},
     llm_ok : IF n = "response_generator" THEN BOOLEAN ELSE {TRUE},
     store_ok : IF n = "response_generator" THEN BOOLEAN ELSE {TRUE},
     user_profile : IF n = "response_generator" THEN ProfileSamples \cup {EmptyDict}
                    ELSE {EmptyDict},
     response : {<<"synthesized answer">>},
     llm_error : {<<"model call failed">>},
     store_error : {<<"store_interaction failed">>},
     market_data : IF n = "market_analyst" THEN MarketDataSamples ELSE {EmptyDict},
     news : IF n = "news_analyst"
            THEN {"tool raises", "no items", "analysis raises", "analysed"}
            ELSE {"analysed"},
     news_items : {<<[title |-> "headline"]>>},
     sentiment_score : {0},
     tool_supplies : IF n = "risk_analyst" THEN BOOLEAN ELSE {FALSE},
     tool_volatility : IF n = "risk_analyst"
                       THEN {NoNumber} \cup {Number(v) : v \in VolatilitySamples}
                       ELSE {NoNumber},
     risk_factors : {<<>>},
     recommendations : {<<>>}] :
        /\ ~k.tool_supplies => k.tool_volatility = NoNumber
        /\ n = "response_generator" => (k.profile_ok <=> k.user_profile # EmptyDict)
        /\ ~k.profile_ok => k.llm_ok
        /\ ~k.llm_ok => k.store_ok
        /\ ~(k.bind_ok /\ k.tools_ok) => (~k.tool_supplies /\ k.market_data = EmptyDict)}

\* No call of the stock-bot client, the command line or the memory system is in progress
ClientIdle ==
    /\ query_call = <<>>
    /\ singleton = <<>>
    /\ cli = <<>>
    /\ memory = <<>>

-----------------------------------------------------------------------------
(* A run of the graph: run_finance_graph *)

Init ==
    /\ input \in [question : Questions, user_id : UserIds]
    /\ collab \in Collaborators
    /\ \E sid \in SessionIds : state = create_initial_state(input.question, input.user_id, sid)
    /\ pc = "validator"
    /\ visited = <<>>
    /\ ret = EmptyDict
    /\ nxt = <<>>
    /\ store_calls = <<>>
    /\ returned = <<>>
    /\ heap = <<>>
    /\ ClientIdle
    /\ runs = <<>>

\* graph.invoke: the node at pc runs, its partial is applied, its edge picks the next node
Step ==
    /\ pc \in Nodes
    /\ \E c \in Calls(pc, collab) :
       LET r == NodeFn(pc, state, c)
       IN  /\ store_calls' = store_calls \o StoreCallsOf(pc, state, c)
           /\ IF r.raised
                 THEN /\ state' = AfterCall(state, r)
                      /\ ret' = r.partial
                      /\ nxt' = <<>>
                      /\ pc' = RAISED
                      /\ returned' = returned
                 ELSE LET s2 == Merge(AfterCall(state, r), r.partial)
                          t == RouteAfter(pc, s2)
                      IN  /\ state' = s2
                          /\ ret' = r.partial
                          /\ nxt' = t
                          /\ pc' = IF t \in EdgeTargets(pc) THEN t[1] ELSE RAISED
                          /\ returned' = Append(returned, r.partial)
    /\ visited' = Append(visited, pc)
    /\ UNCHANGED <<input, collab, heap, runs, client>>

\* run_finance_graph returns the final state, or the exception reaches its caller
Return ==
    /\ pc \in {END, RAISED}
    /\ pc' = IF pc = END THEN "returned" ELSE "escaped"
    /\ UNCHANGED <<input, state, collab, visited, ret, nxt, store_calls, returned, heap, runs, client>>

Next == Step \/ Return

Spec == Init /\ [][Next]_vars

\* graph.invoke is synchronous and every collaborator call returns or fails: a run
\* that has not returned moves on from the position it is at
Advances ==
    /\ pc \in Nodes \cup {END, RAISED}
    /\ pc' \in (Nodes \cup {END, RAISED, "returned", "escaped"}) \ {pc}

SpecLive == Spec /\ WF_pc(Advances)

-----------------------------------------------------------------------------
(* The coordinator and the routing functions called directly on a dict.  The state *)
(* is a plain dict here, so every key a function returns is kept (dict.update);    *)
(* route_after_market_analyst is called where build_graph calls it: after the      *)
(* coordinator's edge has selected market_analyst.                                 *)

AllIntentSamples ==
    {PRICE_QUERY, STOCK_INFO, NEWS_QUERY, SENTIMENT_ANALYSIS, RISK_ANALYSIS,
     INVESTMENT_ADVICE, COMPARISON, UNKNOWN_INTENT,
     <<"g","r","e","e","t","i","n","g">>,
     <<"p","r","i","c","e">>,
     <<"P","R","I","C","E","_","Q","U","E","R","Y">>,
     <<"S","t","o","c","k","_","I","n","f","o">>,
     <<"N","e","w","s","_","Q","u","e","r","y">>,
     <<"S","E","N","T","I","M","E","N","T","_","A","N","A","L","Y","S","I","S">>,
     <<"R","i","s","k","_","A","n","a","l","y","s","i","s">>,
     <<"I","n","v","e","s","t","m","e","n","t","_","A","d","v","i","c","e">>,
     <<"C","O","M","P","A","R","I","S","O","N">>}

AllClassifyOutcomes ==
    {[ok |-> FALSE, intent |-> UNKNOWN_INTENT, symbol |-> NoneVal, company_name |-> NoneVal]}
    \cup [ok : {TRUE}, intent : AllIntentSamples, symbol : {NoneVal, "AAPL"},
          company_name : {NoneVal, "Apple"}]

\* Questions as the validator leaves them, and the empty question
CallQuestions == {<<>>, <<"s", "t", "o", "c", "k", "x">>}

InitCalls ==
    /\ input \in [question : CallQuestions, user_id : UserIds]
    /\ collab \in [classify : AllClassifyOutcomes]
    /\ \E sid \in SessionIds : state = create_initial_state(input.question, input.user_id, sid)
    /\ pc = "call"
    /\ visited = <<>>
    /\ ret = EmptyDict
    /\ nxt = <<>>
    /\ store_calls = <<>>
    /\ returned = <<>>
    /\ heap = <<>>
    /\ ClientIdle
    /\ runs = <<>>

CallCoordinatorNode ==
    /\ pc = "call"
    /\ \E c \in Calls("coordinator", collab) :
       LET r == coordinator_node(state, c)
       IN  /\ ret' = r.partial
           /\ state' = Update(AfterCall(state, r), r.partial)
           /\ returned' = Append(returned, r.partial)
    /\ pc' = "coordinated"
    /\ visited' = Append(visited, "coordinator_node")
    /\ UNCHANGED <<input, collab, nxt, store_calls, heap, runs, client>>

CallRouteBasedOnCoordinatorDecision ==
    /\ pc \in {"call", "coordinated"}
    /\ nxt' = route_based_on_coordinator_decision(state)
    /\ pc' = "routed"
    /\ visited' = Append(visited, "route_based_on_coordinator_decision")
    /\ UNCHANGED <<input, collab, state, ret, store_calls, returned, heap, runs, client>>

CallRouteAfterMarketAnalyst ==
    /\ pc = "routed"
    /\ nxt = <<"market_analyst">>
    /\ nxt' = route_after_market_analyst(state)
    /\ pc' = "routed_after_market"
    /\ visited' = Append(visited, "route_after_market_analyst")
    /\ UNCHANGED <<input, collab, state, ret, store_calls, returned, heap, runs, client>>

\* route_after_news_analyst is called after the coordinator's edge or the market
\* analyst's edge has selected news_analyst.
CallRouteAfterNewsAnalyst ==
    /\ pc \in {"routed", "routed_after_market"}
    /\ nxt = <<"news_analyst">>
    /\ nxt' = route_after_news_analyst(state)
    /\ pc' = "routed_after_news"
    /\ visited' = Append(visited, "route_after_news_analyst")
    /\ UNCHANGED <<input, collab, state, ret, store_calls, returned, heap, runs, client>>

\* validator_node is called on the initial state
CallValidatorNode ==
    /\ pc = "call"
    /\ visited = <<>>
    /\ LET r == validator_node(state)
       IN  /\ ret' = r.partial
           /\ state' = Update(AfterCall(state, r), r.partial)
           /\ returned' = Append(returned, r.partial)
    /\ pc' = "validated"
    /\ visited' = Append(visited, "validator_node")
    /\ UNCHANGED <<input, collab, nxt, store_calls, heap, runs, client>>

\* should_continue_to_intent_classifier is called on what the validator left
CallShouldContinueToIntentClassifier ==
    /\ pc = "validated"
    /\ nxt' = should_continue_to_intent_classifier(state)
    /\ pc' = "routed_after_validator"
    /\ visited' = Append(visited, "should_continue_to_intent_classifier")
    /\ UNCHANGED <<input, collab, state, ret, store_calls, returned, heap, runs, client>>

NextCalls ==
    \/ CallValidatorNode
    \/ CallShouldContinueToIntentClassifier
    \/ CallCoordinatorNode
    \/ CallRouteBasedOnCoordinatorDecision
    \/ CallRouteAfterMarketAnalyst
    \/ CallRouteAfterNewsAnalyst

SpecCalls == InitCalls /\ [][NextCalls]_vars

-----------------------------------------------------------------------------
(* The node functions called directly, each on the dict the calls before it left.  *)
(* Every node function takes a Dict[str, Any] and returns the keys to update; the  *)
(* caller applies them with dict.update and calls later nodes in the order of the  *)
(* graph's edges.  The dict starts as create_initial_state gives it, or with an    *)
(* intent_classification in the dict shape the analysts read with .get.            *)

NodeOrder ==
    <<"validator", "coordinator", "market_analyst", "news_analyst", "risk_analyst",
      "response_generator">>
Position(n) == CHOOSE i \in 1..Len(NodeOrder) : NodeOrder[i] = n

\* intent_classification as a dict: what .get("entities", {}).get("symbol") reads
DictIntents ==
    {[intent |-> RISK_ANALYSIS, entities |-> e] :
        e \in {EmptyDict,
               [symbol |-> "AAPL", company_name |-> NoneVal],
               [symbol |-> NoneVal, company_name |-> "Apple"],
               [risk_profile |-> "high", capital |-> Number(10000)],
               [risk_profile |-> NoneVal, capital |-> NoNumber],
               [risk_profile |-> Unknown, capital |-> Number(0)]}}

NodeClassifyOutcomes ==
    {[ok |-> FALSE, intent |-> UNKNOWN_INTENT, symbol |-> NoneVal, company_name |-> NoneVal],
     [ok |-> TRUE, intent |-> RISK_ANALYSIS, symbol |-> NoneVal, company_name |-> NoneVal],
     [ok |-> TRUE, intent |-> INVESTMENT_ADVICE, symbol |-> "AAPL", company_name |-> "Apple"]}

\* Questions for the node calls: the empty one, a valid one, a valid one the validator
\* trims, and a blank one the validator rejects
NodeQuestions ==
    CallQuestions \cup {<<" ", "s", "t", "o", "c", "k", " ">>, <<" ">>}

InitNodes ==
    /\ input \in [question : NodeQuestions, user_id : UserIds]
    /\ collab \in [classify : NodeClassifyOutcomes]
    /\ \E sid \in {"uuid-1"} :
          LET s0 == create_initial_state(input.question, input.user_id, sid)
          IN  state \in {s0} \cup {Update(s0, [intent_classification |-> ic]) :
                                       ic \in DictIntents}
    /\ pc = "call"
    /\ visited = <<>>
    /\ ret = EmptyDict
    /\ nxt = <<>>
    /\ store_calls = <<>>
    /\ returned = <<>>
    /\ heap = <<>>
    /\ ClientIdle
    /\ runs = <<>>

\* node n is called on the dict; its returned keys are applied; the function
\* build_graph attaches to n's edge is applied to the result
CallNode(n) ==
    /\ pc = "call"
    /\ IF visited = <<>> THEN TRUE ELSE Position(visited[Len(visited)]) < Position(n)
    /\ \E c \in Calls(n, collab) :
       LET r == NodeFn(n, state, c)
       IN  /\ store_calls' = store_calls \o StoreCallsOf(n, state, c)
           /\ IF r.raised
                 THEN /\ state' = AfterCall(state, r)
                      /\ ret' = r.partial
                      /\ nxt' = <<>>
                      /\ pc' = RAISED
                      /\ returned' = returned
                 ELSE /\ state' = Update(AfterCall(state, r), r.partial)
                      /\ ret' = r.partial
                      /\ nxt' = RouteAfter(n, Update(AfterCall(state, r), r.partial))
                      /\ pc' = "call"
                      /\ returned' = Append(returned, r.partial)
    /\ visited' = Append(visited, n)
    /\ UNCHANGED <<input, collab, heap, runs, client>>

CallValidator == CallNode("validator")
CallCoordinator == CallNode("coordinator")
CallMarketAnalyst == CallNode("market_analyst")
CallNewsAnalyst == CallNode("news_analyst")
CallRiskAnalyst == CallNode("risk_analyst")
CallResponseGenerator == CallNode("response_generator")

NextNodes ==
    \/ CallValidator
    \/ CallCoordinator
    \/ CallMarketAnalyst
    \/ CallNewsAnalyst
    \/ CallRiskAnalyst
    \/ CallResponseGenerator

SpecNodes == InitNodes /\ [][NextNodes]_vars

-----------------------------------------------------------------------------
(* Two concurrent calls of run_finance_graph on the same compiled graph.  Each call *)
(* creates its state with create_initial_state and hands it to graph.invoke; the    *)
(* calls interleave node by node.  A state container is a dict object, known by its *)
(* address in heap; the memory system is the one object the runs share.             *)

RunIds == {1, 2}

\* create_initial_state filling one module-level dict: the container created first is
\* handed out again
NewContainer_ModuleLevel(h) == IF h = <<>> THEN Len(h) + 1 ELSE Len(h)

\* A dict display ({...} in create_initial_state) creates a new object
NewContainer(h) == Len(h) + 1

\* The session ids of the containers created so far
UsedSessionIds == {heap[a].session_id : a \in DOMAIN heap}

InitRuns ==
    /\ runs \in [RunIds -> [input : [question : NodeQuestions, user_id : UserIds],
                            collab : [classify : NodeClassifyOutcomes],
                            container : {0},
                            pc : {"start"},
                            visited : {<<>>},
                            returned : {<<>>},
                            calls : {<<>>}]]
    /\ heap = <<>>
    /\ ClientIdle
    /\ store_calls = <<>>
    /\ input = EmptyDict
    /\ state = EmptyDict
    /\ collab = EmptyDict
    /\ pc = "runs"
    /\ visited = <<>>
    /\ ret = EmptyDict
    /\ nxt = <<>>
    /\ returned = <<>>

\* initial_state = create_initial_state(question, user_id); uuid4 gives a new session id
StartRun(r) ==
    /\ runs[r].pc = "start"
    /\ \E sid \in SessionIds \ UsedSessionIds :
          LET a == NewContainer(heap)
              s0 == create_initial_state(runs[r].input.question, runs[r].input.user_id, sid)
          IN  /\ heap' = IF a \in DOMAIN heap THEN [heap EXCEPT ![a] = s0]
                         ELSE Append(heap, s0)
              /\ runs' = [runs EXCEPT ![r].container = a, ![r].pc = "validator"]
    /\ UNCHANGED <<input, state, collab, pc, visited, ret, nxt, store_calls, returned, client>>

\* graph.invoke: the node at the run's position runs on the run's container
StepRun(r) ==
    /\ runs[r].pc \in Nodes
    /\ \E c \in Calls(runs[r].pc, runs[r].collab) :
       LET n == runs[r].pc
           a == runs[r].container
           res == NodeFn(n, heap[a], c)
           s2 == Merge(AfterCall(heap[a], res), res.partial)
           t == RouteAfter(n, s2)
       IN  /\ store_calls' = store_calls \o StoreCallsOf(n, heap[a], c)
           /\ heap' = [heap EXCEPT ![a] = IF res.raised THEN AfterCall(heap[a], res) ELSE s2]
           /\ runs' = [runs EXCEPT
                         ![r].pc = IF res.raised THEN RAISED
                                   ELSE IF t \in EdgeTargets(n) THEN t[1] ELSE RAISED,
                         ![r].visited = Append(@, n),
                         ![r].returned = IF res.raised THEN @ ELSE Append(@, res.partial),
                         ![r].calls = Append(@, c)]
    /\ UNCHANGED <<input, state, collab, pc, visited, ret, nxt, returned, client>>

\* run_finance_graph returns the final state, or the exception reaches its caller
ReturnRun(r) ==
    /\ runs[r].pc \in {END, RAISED}
    /\ runs' = [runs EXCEPT ![r].pc = IF @ = END THEN "returned" ELSE "escaped"]
    /\ UNCHANGED <<input, state, collab, pc, visited, ret, nxt, store_calls, returned, heap, client>>

NextRuns ==
    \/ \E r \in RunIds : StartRun(r)
    \/ \E r \in RunIds : StepRun(r)
    \/ \E r \in RunIds : ReturnRun(r)

SpecRuns == InitRuns /\ [][NextRuns]_vars

-----------------------------------------------------------------------------
(* The stock-bot client: src/llm/doubao_client.py, StockQueryBot *)

\* The variables of the graph, which the client, the command line and the memory
\* system do not touch
graphvars == <<input, state, collab, pc, visited, ret, nxt, store_calls, returned, heap, runs>>

\* No run of the graph is in progress
GraphIdle ==
    /\ input = <<>>
    /\ state = <<>>
    /\ collab = <<>>
    /\ pc = "client"
    /\ visited = <<>>
    /\ ret = <<>>
    /\ nxt = <<>>
    /\ store_calls = <<>>
    /\ returned = <<>>
    /\ heap = <<>>
    /\ runs = <<>>

NoValidAnswer == <<"no valid answer">>                   \* "无法获取有效回答"
ReferencesHeader == <<"references:">>                    \* "\n\n参考资料:\n"

\* The largest max_retries a StockQueryBot is constructed with
MaxRetries == 2

\* f"{i}. {ref.get('title')}（{ref.get('url')}）\n" for every reference, in order
RECURSIVE ReferenceLines(_, _)
ReferenceLines(refs, i) ==
    IF i > Len(refs) THEN <<>>
    ELSE <<i, refs[i].title, refs[i].url>> \o ReferenceLines(refs, i + 1)

\* What a request can meet: the transport, the status line and the payload
Responses ==
    [transport_ok : BOOLEAN, status_ok : BOOLEAN, callback_ok : BOOLEAN,
     body : {[error |-> <<"quota">>],
             EmptyDict,
             [choices |-> <<>>],
             [choices |-> <<<<"answer">>>>],
             [choices |-> <<<<"answer">>, <<"more">>>>,
              references |-> <<[title |-> "t1", url |-> "u1"]>>],
             [choices |-> <<<<>>>>, references |-> <<>>]}]

\* requests.post(...) and response.raise_for_status(): the exception, or none (<<>>)
RequestError(resp) ==
    IF ~resp.transport_ok THEN <<"RequestException">>
    ELSE IF ~resp.status_ok THEN <<"HTTPError">>
    ELSE <<>>

\* _complete_query(payload, headers): the content of the first choice with the
\* references appended, the fixed string when there is no choice, or an exception
complete_query(resp) ==
    IF RequestError(resp) # <<>> THEN [raised |-> TRUE, value |-> RequestError(resp)]
    ELSE IF "error" \in DOMAIN resp.body
    THEN [raised |-> TRUE, value |-> <<"ValueError">> \o resp.body.error]
    ELSE IF "choices" \in DOMAIN resp.body /\ Len(resp.body.choices) > 0
    THEN LET content == resp.body.choices[1]
             refs == Get(resp.body, "references", <<>>)
         IN  [raised |-> FALSE,
              value |-> IF refs # <<>>
                        THEN content \o ReferencesHeader \o ReferenceLines(refs, 1)
                        ELSE content]
    ELSE [raised |-> FALSE, value |-> NoValidAnswer]

\* "".join(full_response): the delta contents of the chunks, the empty ones left out
RECURSIVE JoinContents(_)
JoinContents(choices) ==
    IF choices = <<>> THEN <<>> ELSE Head(choices) \o JoinContents(Tail(choices))

\* _stream_query(payload, headers, callback): the joined contents with the references
\* appended, or an exception (of the request, or of the callback on a content chunk)
stream_query(resp) ==
    IF RequestError(resp) # <<>> THEN [raised |-> TRUE, value |-> RequestError(resp)]
    ELSE LET choices == Get(resp.body, "choices", <<>>)
             refs == Get(resp.body, "references", <<>>)
             full_content == JoinContents(choices)
         IN  IF full_content # <<>> /\ ~resp.callback_ok
             THEN [raised |-> TRUE, value |-> <<"callback raised">>]
             ELSE [raised |-> FALSE,
                   value |-> IF refs # <<>>
                             THEN full_content \o ReferencesHeader \o ReferenceLines(refs, 1)
                             ELSE full_content]

\* The except branch of query with the last failure raised again
query_except_Reraises(q) ==
    LET attempts == q.attempts + 1
    IN  IF attempts > q.max_retries
        THEN [q EXCEPT !.attempts = attempts, !.at = "raised"]
        ELSE [q EXCEPT !.attempts = attempts, !.sleeps = @ + 1]

\* The except branch of query: count the failure, give up with the fixed string after
\* max_retries retries, otherwise sleep and go round the loop again
query_except(q) ==
    LET attempts == q.attempts + 1
    IN  IF attempts > q.max_retries
        THEN [q EXCEPT !.attempts = attempts, !.at = "returned", !.result = NoValidAnswer]
        ELSE [q EXCEPT !.attempts = attempts, !.sleeps = @ + 1]

\* bot.query(question, stream): attempts = 0, before the while loop
InitBot ==
    /\ GraphIdle
    /\ \E m \in 0..MaxRetries, s \in BOOLEAN :
          query_call = [max_retries |-> m, stream |-> s, attempts |-> 0, sleeps |-> 0,
                        requests |-> <<>>, at |-> "loop", result |-> NoneVal]
    /\ singleton = <<>>
    /\ cli = <<>>
    /\ memory = <<>>

\* One round of the while loop: the request, then return its result or the except branch
Attempt ==
    /\ query_call.at = "loop"
    /\ query_call.attempts <= query_call.max_retries
    /\ \E resp \in Responses :
          LET o == IF query_call.stream THEN stream_query(resp) ELSE complete_query(resp)
              q == [query_call EXCEPT !.requests = Append(@, o)]
          IN  query_call' = IF o.raised THEN query_except(q)
                            ELSE [q EXCEPT !.at = "returned", !.result = o.value]
    /\ UNCHANGED <<graphvars, singleton, cli, memory>>

NextBot == Attempt

SpecBot == InitBot /\ [][NextBot]_vars

-----------------------------------------------------------------------------
(* The stock-bot singleton: get_stock_query_bot and Toolkit.get_stock_bot *)

DefaultApiUrl == "https://open.feedcoopapi.com/agent_api/agent/chat/completion"

\* The number of calls a process makes to the two accessors
MaxCalls == 3

\* StockQueryBot(api_key, bot_id, api_url) in a process whose configuration is env:
\* ValueError when no key or no bot id is left after the defaults, else the new object
StockQueryBot(api_key, bot_id, api_url, env) ==
    LET key == IF Falsy(api_key) THEN env.STOCK_API_KEY ELSE api_key
        bot == IF Falsy(bot_id) THEN env.STOCK_BOT_ID ELSE bot_id
    IN  IF Falsy(key) \/ Falsy(bot) THEN [raised |-> TRUE, value |-> EmptyDict]
        ELSE [raised |-> FALSE,
              value |-> [__class__ |-> "StockQueryBot", api_key |-> key, bot_id |-> bot,
                         api_url |-> IF Falsy(api_url) THEN DefaultApiUrl ELSE api_url,
                         max_retries |-> 2, retry_interval |-> 1]]

\* None, as a reference: the objects constructed so far are referred to by 1, 2, ...
NoObject == 0

\* get_stock_query_bot without the test of the cached instance
get_stock_query_bot_NoCache(g, api_key, bot_id, api_url) ==
    LET made == StockQueryBot(api_key, bot_id,
                              IF Falsy(api_url) THEN g.env.stock_api_url ELSE api_url, g.env)
    IN  IF made.raised
        THEN [g EXCEPT !.constructions = @ + 1, !.result = NoObject]
        ELSE [g EXCEPT !.constructions = @ + 1, !.objects = Append(@, made.value),
                       !.instance = Len(g.objects) + 1, !.result = Len(g.objects) + 1]

\* get_stock_query_bot(api_key, bot_id, api_url) on the module's globals g: construct
\* only while _stock_bot_instance is None; a failed construction returns None
get_stock_query_bot(g, api_key, bot_id, api_url) ==
    IF g.instance = NoObject
    THEN LET made == StockQueryBot(api_key, bot_id,
                                   IF Falsy(api_url) THEN g.env.stock_api_url ELSE api_url,
                                   g.env)
         IN  IF made.raised
             THEN [g EXCEPT !.constructions = @ + 1, !.result = NoObject]
             ELSE [g EXCEPT !.constructions = @ + 1, !.objects = Append(@, made.value),
                            !.instance = Len(g.objects) + 1, !.result = Len(g.objects) + 1]
    ELSE [g EXCEPT !.result = g.instance]

\* Toolkit.get_stock_bot(): fill the class attribute _stock_bot from get_stock_query_bot()
\* while it is None, and return it
get_stock_bot(g) ==
    IF g.toolkit = NoObject
    THEN LET h == get_stock_query_bot(g, NoneVal, NoneVal, NoneVal)
         IN  [h EXCEPT !.toolkit = h.result]
    ELSE [g EXCEPT !.result = g.toolkit]

\* A fresh process: no instance cached; the configuration may lack the key or the bot id
InitSingleton ==
    /\ GraphIdle
    /\ \E k \in {"", "k0"}, b \in {"", "b0"} :
          singleton = [instance |-> NoObject, toolkit |-> NoObject,
                       env |-> [STOCK_API_KEY |-> k, STOCK_BOT_ID |-> b,
                                stock_api_url |-> NoneVal],
                       constructions |-> 0, objects |-> <<>>, result |-> NoObject,
                       log |-> <<>>]
    /\ query_call = <<>>
    /\ cli = <<>>
    /\ memory = <<>>

\* The entry of the call log for a call that took the globals from g to h
LogEntry(fn, args, g, h) ==
    [fn |-> fn, args |-> args, result |-> h.result, cached |-> h.instance,
     constructed |-> h.constructions > g.constructions]

\* A call of get_stock_query_bot; each argument is left out, empty, or a value
CallGetStockQueryBot ==
    /\ Len(singleton.log) < MaxCalls
    /\ \E k \in {NoneVal, "", "k1", "k2"}, b \in {NoneVal, "b1"}, u \in {NoneVal, "u1"} :
          LET h == get_stock_query_bot(singleton, k, b, u)
          IN  singleton' = [h EXCEPT !.log =
                               Append(@, LogEntry("get_stock_query_bot", <<k, b, u>>,
                                                  singleton, h))]
    /\ UNCHANGED <<graphvars, query_call, cli, memory>>

CallToolkitGetStockBot ==
    /\ Len(singleton.log) < MaxCalls
    /\ LET h == get_stock_bot(singleton)
       IN  singleton' = [h EXCEPT !.log =
                            Append(@, LogEntry("Toolkit.get_stock_bot", <<>>, singleton, h))]
    /\ UNCHANGED <<graphvars, query_call, cli, memory>>

NextSingleton == CallGetStockQueryBot \/ CallToolkitGetStockBot

SpecSingleton == InitSingleton /\ [][NextSingleton]_vars

-----------------------------------------------------------------------------
(* The memory system: src/memory/memory_system.py, MemorySystem *)

\* Bounds: the seconds the clock runs through and the calls a process makes
MaxClock == 2
MaxMemoryCalls == 3

\* f"Query: {query}\n\nResponse: {response}"
Document(query, response) == <<"Query: ">> \o query \o <<"\n\n", "Response: ">> \o response

\* doc.split("\n\n", 1), then "Query: " and "Response: " removed from the two parts; a
\* document without the separator gives no entry
ParseDocument(doc) ==
    LET seps == {i \in 1..Len(doc) : doc[i] = "\n\n"}
    IN  IF seps = {} THEN [ok |-> FALSE, query |-> <<>>, response |-> <<>>]
        ELSE LET p == CHOOSE i \in seps : \A j \in seps : i <= j
             IN  [ok |-> TRUE,
                  query |-> SelectSeq(SubSeq(doc, 1, p - 1), LAMBDA x : x # "Query: "),
                  response |-> SelectSeq(SubSeq(doc, p + 1, Len(doc)),
                                         LAMBDA x : x # "Response: ")]

\* store_interaction(user_id, query, response, decision_context, **extra) on the memory
\* system m at clock second m.clock, the collection behaving as b says.  A keyword the
\* signature does not have is a TypeError of the call; without a collection the result
\* is ""; any exception of the body is printed and the result is "".  collection.add
\* fails ("raises"), or refuses an id the collection already holds and adds any other
\* ("duplicate raises"), or adds a new id and ignores one it already holds ("ok").
store_interaction(m, user_id, query, response, decision_context, extra, add) ==
    IF extra # {} THEN [raised |-> TRUE, result |-> <<>>, records |-> m.records]
    ELSE IF ~m.has_collection THEN [raised |-> FALSE, result |-> <<>>, records |-> m.records]
    ELSE LET record_id == <<user_id, "_", m.clock>>
             simple == {k \in DOMAIN decision_context : decision_context[k].type # "dict"}
             base == [user_id |-> user_id, timestamp |-> m.clock, query_type |-> "finance"]
             metadata == [k \in DOMAIN base \cup simple |->
                             IF k \in simple THEN decision_context[k].value ELSE base[k]]
             held == \E i \in 1..Len(m.records) : m.records[i].id = record_id
         IN  IF add = "raises" \/ (held /\ add = "duplicate raises")
             THEN [raised |-> FALSE, result |-> <<>>, records |-> m.records]
             ELSE [raised |-> FALSE, result |-> record_id,
                   records |-> IF held THEN m.records
                               ELSE Append(m.records,
                                           [id |-> record_id,
                                            document |-> Document(query, response),
                                            metadata |-> metadata])]

\* The entries the two read operations build from the records the collection returned
HistoryOf(found, with_metadata) ==
    LET parsed == [i \in 1..Len(found) |-> ParseDocument(found[i].document)]
        kept == SelectSeq([i \in 1..Len(found) |-> i], LAMBDA i : parsed[i].ok)
    IN  [n \in 1..Len(kept) |->
            IF with_metadata
            THEN [id |-> found[kept[n]].id, query |-> parsed[kept[n]].query,
                  response |-> parsed[kept[n]].response,
                  metadata |-> found[kept[n]].metadata]
            ELSE [id |-> found[kept[n]].id, query |-> parsed[kept[n]].query,
                  response |-> parsed[kept[n]].response,
                  timestamp |-> found[kept[n]].metadata.timestamp]]

\* retrieve_history(user_id, limit): [] without a collection or when collection.get
\* raises, else the entries of at most limit records of that user
retrieve_history(m, user_id, limit, b) ==
    IF ~m.has_collection \/ b.read = "raises" THEN <<>>
    ELSE LET mine == SelectSeq(m.records, LAMBDA r : r.metadata.user_id = user_id)
         IN  HistoryOf(SubSeq(mine, 1, IF Len(mine) < limit THEN Len(mine) ELSE limit), FALSE)

\* semantic_search(query, limit): [] without a collection or when collection.query
\* raises, else the entries of the at most limit records the collection ranks first
\* (b.ranking: the order the collection gives its records for this query)
semantic_search(m, query, limit, b) ==
    IF ~m.has_collection \/ b.read = "raises" THEN <<>>
    ELSE LET n == Len(m.records)
             ranked == IF b.ranking = "oldest first" THEN m.records
                       ELSE [i \in 1..n |-> m.records[n + 1 - i]]
         IN  HistoryOf(SubSeq(ranked, 1, IF n < limit THEN n ELSE limit), TRUE)

\* MemorySystem(config): the collection is there, or its initialisation failed
InitMemory ==
    /\ GraphIdle
    /\ \E h \in BOOLEAN : memory = [has_collection |-> h, records |-> <<>>, clock |-> 0,
                                    log |-> <<>>]
    /\ query_call = <<>>
    /\ singleton = <<>>
    /\ cli = <<>>

\* time.time() moves on to the next second
Tick ==
    /\ memory.clock < MaxClock
    /\ memory' = [memory EXCEPT !.clock = @ + 1]
    /\ UNCHANGED <<graphvars, query_call, singleton, cli>>

\* A call of store_interaction as main.run_query makes it (user_id, query, response) or
\* as response_generator_node makes it (with decision_context and participating_agents)
CallStoreInteraction ==
    /\ Len(memory.log) < MaxMemoryCalls
    /\ \E site \in {"run_query", "response_generator_node"},
          user_id \in {"u1", "u2"},
          query \in {<<"price?">>, <<"a", "\n\n", "b">>},
          add \in {"ok", "raises", "duplicate raises"} :
          LET dc == IF site = "run_query" THEN EmptyDict
                    ELSE [intent |-> [type |-> "str", value |-> PRICE_QUERY],
                          entities |-> [type |-> "dict", value |-> EmptyDict]]
              extra == IF site = "run_query" THEN {} ELSE {"participating_agents"}
              r == store_interaction(memory, user_id, query, <<"answer">>, dc, extra, add)
          IN  memory' = [memory EXCEPT
                  !.records = r.records,
                  !.log = Append(@, [op |-> "store_interaction", site |-> site,
                                     user_id |-> user_id, query |-> query,
                                     backend |-> add, clock |-> memory.clock,
                                     before |-> memory.records, after |-> r.records,
                                     raised |-> r.raised, result |-> r.result])]
    /\ UNCHANGED <<graphvars, query_call, singleton, cli>>

\* The outcomes of the collection's read calls: collection.get, which has no ranking,
\* and collection.query
ReadOutcomes(op) ==
    {b \in [read : {"ok", "raises"}, ranking : {"oldest first", "newest first"}] :
        (op = "retrieve_history" \/ b.read = "raises") => b.ranking = "oldest first"}

\* A call of retrieve_history or of semantic_search
CallRead ==
    /\ Len(memory.log) < MaxMemoryCalls
    /\ \E op \in {"retrieve_history", "semantic_search"}, limit \in {1, 5} :
       \E user_id \in IF op = "retrieve_history" THEN {"u1", "u2"} ELSE {""},
          b \in ReadOutcomes(op) :
          LET r == IF op = "retrieve_history" THEN retrieve_history(memory, user_id, limit, b)
                   ELSE semantic_search(memory, <<"price?">>, limit, b)
          IN  memory' = [memory EXCEPT
                  !.log = Append(@, [op |-> op, site |-> "", user_id |-> user_id,
                                     query |-> <<"price?">>, backend |-> b.read,
                                     clock |-> memory.clock, before |-> memory.records,
                                     after |-> memory.records,
                                     raised |-> FALSE, result |-> r])]
    /\ UNCHANGED <<graphvars, query_call, singleton, cli>>

NextMemory == Tick \/ CallStoreInteraction \/ CallRead

SpecMemory == InitMemory /\ [][NextMemory]_vars

-----------------------------------------------------------------------------
(* The command line: src/main.py, run_query *)

stock_keywords ==
    << <<"U+80A1", "U+7968">>, <<"U+80A1", "U+4EF7">>, <<"U+8D70", "U+52BF">>,
       <<"U+5927", "U+76D8">>, <<"U+6307", "U+6570">>, <<"U+884C", "U+60C5">>,
       <<"U+57FA", "U+91D1">>, <<"U+6295", "U+8D44">>, <<"U+5206", "U+6790">> >>

NotConfigured == <<"stock bot not configured">>          \* "股票智能体未配置，无法处理查询"
QueryFailed == <<"query failed: ">>                      \* f"查询失败: {str(e)}"

\* What stock_bot.query does: an answer, an empty one, the fixed 'no valid answer'
\* string, or an exception
BotAnswers ==
    {[raised |-> FALSE, value |-> v] : v \in {<<"answer">>, <<>>, NoValidAnswer}}
        \cup {[raised |-> TRUE, value |-> <<"bot error">>]}

\* The try block of the direct route, the bot having answered o and store_interaction,
\* if it is reached, s: the streamed answer is returned as it is; a usable answer is
\* stored (when there is a memory system) and returned; an exception, of the bot or of
\* the memory system, or an unusable answer goes on to the second route
keyword_path(c, o, s) ==
    LET called == [c EXCEPT !.bot_calls = Append(@, o)]
    IN  IF o.raised THEN [called EXCEPT !.at = "fallback"]
        ELSE IF c.stream THEN [called EXCEPT !.at = "returned", !.result = o.value]
        ELSE IF o.value # <<>> /\ o.value # NoValidAnswer
        THEN IF c.has_memory
             THEN LET stored == [called EXCEPT !.stored = Append(@,
                                    [user_id |-> c.user_id, query |-> c.query,
                                     response |-> o.value])]
                  IN  IF s.raised THEN [stored EXCEPT !.at = "fallback"]
                      ELSE [stored EXCEPT !.at = "returned", !.result = o.value]
             ELSE [called EXCEPT !.at = "returned", !.result = o.value]
        ELSE [called EXCEPT !.at = "fallback"]

\* The second route with the bot's exception reaching the caller
network_path_Unguarded(c, o) ==
    IF c.has_bot
    THEN IF o.raised
         THEN [c EXCEPT !.bot_calls = Append(@, o), !.at = "raised"]
         ELSE [c EXCEPT !.bot_calls = Append(@, o), !.at = "returned", !.result = o.value]
    ELSE [c EXCEPT !.at = "returned", !.result = NotConfigured]

\* The second route: with a bot, its answer or "query failed: {e}"; without one the
\* fixed message
network_path(c, o) ==
    IF c.has_bot
    THEN [c EXCEPT !.bot_calls = Append(@, o), !.at = "returned",
                   !.result = IF o.raised THEN QueryFailed \o o.value ELSE o.value]
    ELSE [c EXCEPT !.at = "returned", !.result = NotConfigured]

\* run_query(query, system, user_id, stream) up to the test of is_stock_query; the
\* memory system of system["memory"] has its collection or not
InitCli ==
    /\ GraphIdle
    /\ \E q \in {<<"U+80A1", "U+7968", "?">>, <<"U+80A1", "x", "U+7968">>, <<"h", "i">>, <<>>},
          st \in BOOLEAN, bot \in BOOLEAN, mem \in BOOLEAN :
          cli = [query |-> q, user_id |-> "default_user", stream |-> st,
                 has_bot |-> bot, has_memory |-> mem,
                 is_stock_query |->
                     \E k \in 1..Len(stock_keywords) : Contains(q, stock_keywords[k]),
                 bot_calls |-> <<>>, stored |-> <<>>, at |-> "start", result |-> NoneVal]
    /\ \E h \in BOOLEAN : memory = [has_collection |-> h, records |-> <<>>, clock |-> 0,
                                    log |-> <<>>]
    /\ query_call = <<>>
    /\ singleton = <<>>

\* 'if is_stock_query and stock_bot:' the direct route
KeywordPath ==
    /\ cli.at = "start"
    /\ cli.is_stock_query /\ cli.has_bot
    /\ \E o \in BotAnswers, add \in {"ok", "raises"} :
          LET s == store_interaction(memory, cli.user_id, cli.query, o.value, EmptyDict,
                                     {}, add)
              c == keyword_path(cli, o, s)
          IN  /\ cli' = c
              /\ memory' = IF c.stored # cli.stored
                           THEN [memory EXCEPT !.records = s.records]
                           ELSE memory
    /\ UNCHANGED <<graphvars, query_call, singleton>>

\* The code after the direct route, reached when that was not taken or fell through
NetworkPath ==
    /\ cli.at = "fallback" \/ (cli.at = "start" /\ ~(cli.is_stock_query /\ cli.has_bot))
    /\ \E o \in IF cli.has_bot THEN BotAnswers ELSE {[raised |-> FALSE, value |-> <<>>]} :
          cli' = network_path(cli, o)
    /\ UNCHANGED <<graphvars, query_call, singleton, memory>>

NextCli == KeywordPath \/ NetworkPath

SpecCli == InitCli /\ [][NextCli]_vars

-----------------------------------------------------------------------------
(* Properties *)

\* The run is over: run_finance_graph has returned or its exception has escaped.
RunOver == pc \in {"returned", "escaped"}

\* The validator has run and nothing after it.
ValidatorJustRan == visited = <<"validator">>

\* The question given to the run, trimmed
Trimmed == Strip(input.question)

\* Case-insensitive substring match of the trimmed question against the keyword list
SameLetter(a, b) ==
    (IF a \in DOMAIN UpperToLower THEN UpperToLower[a] ELSE a)
        = (IF b \in DOMAIN UpperToLower THEN UpperToLower[b] ELSE b)

MentionsFinance(q) ==
    \E k \in 1..Len(finance_keywords) :
        \E i \in 1..(Len(q) - Len(finance_keywords[k]) + 1) :
            \A j \in 1..Len(finance_keywords[k]) : SameLetter(q[i + j - 1], finance_keywords[k][j])

AnalystFields == {"market_data", "news_analysis", "risk_assessment"}

\* C1: every run ends with final_response set in the returned state, and no exception
\* reaches the caller of run_finance_graph.
C1_RunAlwaysAnswers ==
    RunOver => (pc = "returned" /\ "final_response" \in DOMAIN state)

\* C2: an input that is empty, whitespace-only or shorter than 5 characters after
\* trimming is marked invalid by the validator, with the 'empty' error when nothing is
\* left after trimming and the 'too short' error otherwise; final_response is non-empty
\* and embeds the error; agent_outputs holds exactly one entry, from 'validator';
\* error_log is empty; no analyst field is set; no node after the validator executes.
C2_ShortInputRejected ==
    (visited # <<>> /\ Len(Trimmed) < 5) =>
        LET error == IF Len(Trimmed) = 0 THEN ErrEmpty ELSE ErrTooShort
        IN  /\ visited = <<"validator">>
            /\ pc \in {END, "returned"}
            /\ ret.validation_result = [valid |-> FALSE, error |-> error]
            /\ "final_response" \in DOMAIN state
            /\ Len(state.final_response) > 0
            /\ Contains(state.final_response, error)
            /\ Len(state.agent_outputs) = 1
            /\ state.agent_outputs[1] = [agent |-> "validator", output |-> error]
            /\ state.error_log = <<>>
            /\ DOMAIN state \cap AnalystFields = {}

C2_Witness ==
    /\ pc = "returned"
    /\ Len(input.question) > 0
    /\ Len(Trimmed) = 4
    /\ MentionsFinance(Trimmed)
    /\ state.final_response = RejectPrefix \o ErrTooShort

\* C3: an input whose trimmed length exceeds 500 and that contains a finance keyword is
\* marked valid, original_question is written back as exactly the first 500 characters
\* of the trimmed input, and validation_result carries a warning.
C3_LongInputTruncated ==
    (ValidatorJustRan /\ Len(input.question) > 500 /\ Len(Trimmed) > 500
        /\ MentionsFinance(Trimmed)) =>
        /\ ret.validation_result.valid = TRUE
        /\ "warning" \in DOMAIN ret.validation_result
        /\ Len(state.original_question) = 500
        /\ LET t == Trimmed IN \A i \in 1..500 : state.original_question[i] = t[i]
        /\ ret.original_question = state.original_question

C3_Witness ==
    /\ ValidatorJustRan
    /\ Len(Trimmed) = 501
    /\ MentionsFinance(Trimmed)
    /\ Len(state.original_question) = 500
    /\ ret.validation_result.warning = WarnTruncated

\* C4: the validator's rules apply in the order empty, too short, too long, no finance
\* keyword, valid, and the first that matches decides: a trimmed length of 5..500 is
\* valid exactly when the text contains a finance keyword, matched case-insensitively,
\* and a length over 500 is valid whether or not a keyword occurs.
C4_RulesInOrder ==
    ValidatorJustRan =>
        LET n == Len(Trimmed)
            v == ret.validation_result
        IN  /\ n = 0 => v = [valid |-> FALSE, error |-> ErrEmpty]
            /\ (0 < n /\ n < 5) => v = [valid |-> FALSE, error |-> ErrTooShort]
            /\ n > 500 => v = [valid |-> TRUE, warning |-> WarnTruncated]
            /\ (5 <= n /\ n <= 500 /\ ~MentionsFinance(Trimmed)) =>
                    v = [valid |-> FALSE, error |-> ErrNotFinance]
            /\ (5 <= n /\ n <= 500 /\ MentionsFinance(Trimmed)) => v = [valid |-> TRUE]

C4_Witness ==
    /\ ValidatorJustRan
    /\ Len(Trimmed) = 5
    /\ MentionsFinance(Trimmed)
    /\ ~HasFinanceKeyword_CaseSensitive(Trimmed)
    /\ ret.validation_result = [valid |-> TRUE]

\* The over-length rule wins over the keyword rule: reached for C4 as well.
C4_WitnessOverLength ==
    /\ ValidatorJustRan
    /\ Len(Trimmed) > 500
    /\ ~MentionsFinance(Trimmed)
    /\ ret.validation_result.valid = TRUE

\* The dispatch table of the specification, on the lower-cased intent
DispatchTable(intent) ==
    CASE intent \in {PRICE_QUERY, STOCK_INFO} -> <<"market_analyst">>
      [] intent \in {NEWS_QUERY, SENTIMENT_ANALYSIS} -> <<"news_analyst">>
      [] intent = RISK_ANALYSIS -> <<"risk_analyst">>
      [] intent \in {INVESTMENT_ADVICE, COMPARISON} ->
            <<"market_analyst", "+", "news_analyst", "+", "risk_analyst">>
      [] OTHER -> <<"unknown">>

\* The intent the classification collaborator gives for this run (unknown when it raises)
ClassifiedIntent == IF collab.classify.ok THEN collab.classify.intent ELSE UNKNOWN_INTENT

\* C5: the coordinator writes to coordinator_decision.next_agent the plan the dispatch
\* table gives for the classified intent, compared case-insensitively, and no other
\* plan string.
C5_DispatchTable ==
    (pc = "coordinated" /\ "coordinator_decision" \in DOMAIN ret) =>
        /\ ret.coordinator_decision.next_agent = DispatchTable(Lower(ClassifiedIntent))
        /\ ret.coordinator_decision.next_agent \in
              {PlanMarket, PlanNews, PlanRisk, PlanAll, PlanUnknown}
        /\ ret.coordinator_decision.intent = Lower(ClassifiedIntent)

C5_Witness ==
    /\ pc = "coordinated"
    /\ "coordinator_decision" \in DOMAIN ret
    /\ collab.classify.ok
    /\ collab.classify.intent = <<"S","t","o","c","k","_","I","n","f","o">>
    /\ ret.coordinator_decision.next_agent = <<"market_analyst">>

\* The question the run was given passes validation.
ValidQuestion == validate_input(input.question).is_valid

\* C6: a valid question classified as price_query gets the plan 'market_analyst', and
\* the run executes the market analyst and then the response generator, and neither the
\* news analyst nor the risk analyst.
C6_PriceQueryPath ==
    (RunOver /\ ValidQuestion /\ collab.classify.ok
        /\ Lower(collab.classify.intent) = PRICE_QUERY) =>
        /\ visited = <<"validator", "coordinator", "market_analyst", "response_generator">>
        /\ pc = "returned"

\* C7: a valid question classified as investment_advice runs the market, news and risk
\* analysts and then the response generator, each once and in that order, whatever
\* entities were extracted.
C7_InvestmentAdvicePath ==
    (RunOver /\ ValidQuestion /\ collab.classify.ok
        /\ Lower(collab.classify.intent) = INVESTMENT_ADVICE) =>
        /\ visited = <<"validator", "coordinator", "market_analyst", "news_analyst",
                       "risk_analyst", "response_generator">>
        /\ pc = "returned"

\* C8: after the validator the next node is the coordinator exactly when the validator
\* returned validation_result.valid = true, and the run ends otherwise.
C8_ValidatorEdge ==
    ValidatorJustRan =>
        /\ ret.validation_result.valid => pc = "coordinator"
        /\ ~ret.validation_result.valid => pc \in {END, "returned"}

\* The analysts a plan string names
AnalystNames == {"market_analyst", "news_analyst", "risk_analyst"}
PlanOf(st) ==
    IF "coordinator_decision" \in DOMAIN st THEN st.coordinator_decision.next_agent ELSE <<>>
PlanNames(st) == {PlanOf(st)[i] : i \in 1..Len(PlanOf(st))} \cap AnalystNames

\* C9: after the coordinator the next node is the first analyst the plan names, and is
\* market_analyst when the plan is no recognized analyst name ('unknown', or no
\* coordinator_decision at all).
C9_CoordinatorEdge ==
    pc = "routed" =>
        nxt = IF PlanOf(state) # <<>> /\ PlanOf(state)[1] \in AnalystNames
              THEN <<PlanOf(state)[1]>>
              ELSE <<"market_analyst">>

C9_Witness ==
    /\ pc = "routed"
    /\ PlanOf(state) = PlanUnknown
    /\ nxt = <<"market_analyst">>

\* The router is reached with a single-analyst plan other than market_analyst as well.
C9_WitnessOthers ==
    /\ pc = "routed"
    /\ PlanOf(state) = PlanNews
    /\ nxt = <<"news_analyst">>

\* C10: after the market analyst the next node is the news analyst if the plan names
\* news_analyst, otherwise the risk analyst if it names risk_analyst, otherwise the
\* response generator.
C10_MarketEdge ==
    pc = "routed_after_market" =>
        nxt = IF "news_analyst" \in PlanNames(state) THEN <<"news_analyst">>
              ELSE IF "risk_analyst" \in PlanNames(state) THEN <<"risk_analyst">>
              ELSE <<"response_generator">>

C10_Witness ==
    /\ pc = "routed_after_market"
    /\ PlanNames(state) = AnalystNames
    /\ nxt = <<"news_analyst">>

\* The function on the news analyst's edge, where build_graph calls it: the risk analyst
\* if the plan names risk_analyst, otherwise the response generator.
RouteAfterNewsFollowsPlan ==
    pc = "routed_after_news" =>
        nxt = IF "risk_analyst" \in PlanNames(state) THEN <<"risk_analyst">>
              ELSE <<"response_generator">>

\* C11: after the news analyst the next node is the risk analyst if the plan names
\* risk_analyst, otherwise the response generator; a run whose plan is the single
\* analyst 'news_analyst' (a valid question classified as news_query) executes the news
\* analyst and then the response generator, and neither the market nor the risk analyst.
C11_NewsOnlyPath ==
    (RunOver /\ ValidQuestion /\ collab.classify.ok
        /\ Lower(collab.classify.intent) = NEWS_QUERY) =>
        /\ visited = <<"validator", "coordinator", "news_analyst", "response_generator">>
        /\ pc = "returned"

\* The places of node n in the order of execution
PlacesOf(n) == {i \in 1..Len(visited) : visited[i] = n}

\* C12: every run is linear: no node executes more than once, the analysts that execute
\* do so in the order market, news, risk, the risk analyst is directly followed by the
\* response generator, and in every run that passes validation the response generator
\* executes exactly once, after every analyst and as the last node before the run ends.
C12_LinearRun ==
    /\ \A n \in Nodes : Cardinality(PlacesOf(n)) <= 1
    /\ \A i, j \in 1..Len(visited) :
          (i < j /\ visited[i] \in AnalystNames /\ visited[j] \in AnalystNames) =>
              Position(visited[i]) < Position(visited[j])
    /\ \A i \in PlacesOf("risk_analyst") :
          i < Len(visited) => visited[i + 1] = "response_generator"
    /\ (RunOver /\ ValidQuestion) =>
          /\ pc = "returned"
          /\ Cardinality(PlacesOf("response_generator")) = 1
          /\ visited[Len(visited)] = "response_generator"

\* The node that has just been called, and the symbol of the extracted entities
LastCalled(v) == IF v = <<>> THEN "" ELSE v[Len(v)]
SymbolOf(st) ==
    Get(Get(Get(st, "intent_classification", EmptyDict), "entities", EmptyDict),
        "symbol", NoneVal)
SkipReason(n) == IF n = "market_analyst" THEN SkipMarket ELSE SkipRisk
FieldOf(n) ==
    CASE n = "market_analyst" -> "market_data"
      [] n = "news_analyst" -> "news_analysis"
      [] n = "risk_analyst" -> "risk_assessment"

\* C13: when the extracted entities have no symbol, the market analyst and the risk
\* analyst, whenever they are called, return an empty structured result and
\* agent_outputs with one more entry that states the skip reason, whatever their
\* collaborator would answer, add nothing to error_log, and do not raise (so that the
\* run goes on to the response generator).
C13_NoSymbolSkips ==
    [][\A n \in {"market_analyst", "risk_analyst"} :
          (pc = "call" /\ visited' = Append(visited, n) /\ Falsy(SymbolOf(state))) =>
              /\ pc' = "call"
              /\ ret' = (FieldOf(n) :> EmptyDict) @@
                        [agent_outputs |-> state.agent_outputs \o
                            <<[agent |-> n, output |-> SkipReason(n)]>>]
              /\ state'.error_log = state.error_log
              /\ nxt' \in EdgeTargets(n)]_vars

Called(n) == \E i \in 1..Len(visited) : visited[i] = n

\* C14: if the classification collaborator raises, the coordinator does not raise: it
\* records intent 'unknown' with empty entities and the plan 'unknown', and the nodes
\* after it complete, the response generator setting final_response.
C14_ClassifierFailureAbsorbed ==
    (Called("coordinator") /\ ~collab.classify.ok /\ state.original_question # <<>>) =>
        /\ state.intent_classification =
              IntentClassification(UNKNOWN_INTENT, ExtractedEntities(NoneVal, NoneVal))
        /\ state.coordinator_decision.next_agent = PlanUnknown
        /\ pc # RAISED
        /\ Called("response_generator") => "final_response" \in DOMAIN state

\* The analyst n, called on st, gets as far as consulting its collaborator: the entities
\* are readable and name a symbol (for the news analyst, a company name or a symbol).
Consults(n, st) ==
    LET ic == Get(st, "intent_classification", EmptyDict)
        e == Get(ic, "entities", EmptyDict)
        ind == Get(Get(st, "market_data", EmptyDict), "indicators", EmptyDict)
    IN  /\ ~IsObject(ic)
        /\ ~IsObject(e)
        /\ IF n = "news_analyst"
           THEN ~Falsy(Get(e, "company_name", NoneVal)) \/ ~Falsy(Get(e, "symbol", NoneVal))
           ELSE ~Falsy(Get(e, "symbol", NoneVal))
        /\ (n = "risk_analyst" /\ "bollinger_position_percent" \in DOMAIN ind) =>
              ind.bollinger_position_percent # NoNumber

\* The collaborator of analyst n fails in the call c
FailingCall(n, c) ==
    IF n = "news_analyst" THEN c.news \in {"tool raises", "analysis raises"}
    ELSE ~c.bind_ok \/ ~c.tools_ok

\* This step is the call of n on state with the collaborator answering as in c
StepIsCall(n, c) ==
    /\ pc = "call"
    /\ visited' = Append(visited, n)
    /\ LET r == NodeFn(n, state, c)
       IN  IF r.raised THEN pc' = RAISED ELSE pc' = "call" /\ ret' = r.partial

CollaboratorFails(n, st, c) ==
    CASE n = "coordinator" -> st.original_question # <<>> /\ ~c.classify.ok
      [] n \in AnalystNames -> Consults(n, st) /\ FailingCall(n, c)
      [] n = "response_generator" ->
            /\ ~IsObject(Get(st, "intent_classification", EmptyDict))
            /\ ~IsObject(Get(Get(st, "intent_classification", EmptyDict), "entities",
                             EmptyDict))
            /\ \/ ~c.llm_ok
               \/ st.user_id # "" /\ (~c.profile_ok \/ ~c.store_ok)
      [] OTHER -> FALSE

\* C16: every collaborator failure in a step (classification in the coordinator, a tool
\* or model call in an analyst, response generation or persistence in the response
\* generator) is recorded as one more entry of error_log in the state the step leaves.
C16_FailuresLogged ==
    [][\A n \in Nodes :
          (\E c \in Calls(n, collab) : CollaboratorFails(n, state, c) /\ StepIsCall(n, c))
              => /\ pc' = "call"
                 /\ Len(state'.error_log) = Len(state.error_log) + 1]_vars

\* The instance of C16 for the coordinator: a failed classification leaves an entry in
\* error_log.
ClassificationFailureLogged ==
    (visited = <<"coordinator">> /\ state.original_question # <<>> /\ ~collab.classify.ok)
        => state.error_log # <<>>

IsPrefix(a, b) == Len(a) <= Len(b) /\ SubSeq(b, 1, Len(a)) = a

\* C17: agent_outputs and error_log are append-only: after every step each list has its
\* previous value as a prefix, and a step adds at most one entry to agent_outputs, whose
\* agent field names the step that added it.
C17_AppendOnly ==
    [][/\ IsPrefix(state.agent_outputs, state'.agent_outputs)
       /\ IsPrefix(state.error_log, state'.error_log)
       /\ Len(state'.agent_outputs) <= Len(state.agent_outputs) + 1
       /\ Len(state'.agent_outputs) = Len(state.agent_outputs) + 1 =>
             state'.agent_outputs[Len(state'.agent_outputs)].agent = LastCalled(visited')]_vars

C17_Witness ==
    /\ pc = "call"
    /\ visited = <<"validator", "market_analyst", "news_analyst">>
    /\ Len(state.agent_outputs) = 3
    /\ state.agent_outputs[1].agent = "validator"
    /\ state.agent_outputs[3].agent = "news_analyst"
    /\ Len(state.error_log) = 2

\* C18: final_response is written exactly once in every run: by the validator when it
\* rejects the input, by the response generator otherwise, by no other node; once it is
\* present no further node executes.
C18_FinalResponseOnce ==
    /\ RunOver => "final_response" \in DOMAIN state
    /\ "final_response" \in DOMAIN state =>
          /\ pc \in {END, "returned"}
          /\ LastCalled(visited) = IF ValidQuestion THEN "response_generator" ELSE "validator"
          /\ \A i \in 1..(Len(visited) - 1) :
                visited[i] \notin {"response_generator"} /\ (visited[i] = "validator" => ValidQuestion)

\* The entity analyst n needs is missing from the extracted entities
NoActionableEntity(n, st) ==
    LET e == Get(Get(st, "intent_classification", EmptyDict), "entities", EmptyDict)
    IN  /\ Falsy(Get(e, "symbol", NoneVal))
        /\ n = "news_analyst" => Falsy(Get(e, "company_name", NoneVal))

\* This step returned a value for the field of analyst n
WritesFieldOf(n) == pc = "call" /\ pc' = "call" /\ FieldOf(n) \in DOMAIN ret'

BandOf(v) ==
    CASE v < Pct(15, 0) -> RiskLow
      [] Pct(15, 0) <= v /\ v < Pct(25, 0) -> RiskMedium
      [] Pct(25, 0) <= v /\ v < Pct(40, 0) -> RiskHigh
      [] Pct(40, 0) <= v -> RiskVeryHigh

\* The state holds a Bollinger position for the risk analyst to estimate volatility from
HasBollingerPosition(st) ==
    "bollinger_position_percent" \in
        DOMAIN Get(Get(st, "market_data", EmptyDict), "indicators", EmptyDict)

\* C20: whenever the risk analyst has a volatility percentage v, the risk level it
\* records is low for v < 15, medium for 15 <= v < 25, high for 25 <= v < 40 and very
\* high for v >= 40; a volatility reported by the tool is the one recorded; with no
\* volatility value the level stays 'unknown' and volatility stays unset.
C20_RiskBands ==
    [][\A c \in Calls("risk_analyst", collab) :
          (StepIsCall("risk_analyst", c) /\ pc' = "call" /\ c.tools_ok
              /\ Consults("risk_analyst", state)) =>
              LET ra == ret'.risk_assessment
              IN  /\ ra.volatility # NoNumber => ra.risk_level = BandOf(ra.volatility[1])
                  /\ c.tool_volatility # NoNumber => ra.volatility = c.tool_volatility
                  /\ (c.tool_volatility = NoNumber /\ ~HasBollingerPosition(state)) =>
                        (ra.volatility = NoNumber /\ ra.risk_level = RiskUnknown)
                  /\ ra.volatility = NoNumber => ra.risk_level = RiskUnknown]_vars

C20_Witness ==
    /\ pc = "call"
    /\ LastCalled(visited) = "risk_analyst"
    /\ state.risk_assessment # EmptyDict
    /\ state.risk_assessment.volatility = Number(Pct(30, 0))
    /\ state.risk_assessment.risk_level = RiskHigh

\* The band limits are reached, and so is the case of no volatility value
C20_WitnessLimit15 ==
    /\ pc = "call" /\ LastCalled(visited) = "risk_analyst"
    /\ state.risk_assessment # EmptyDict
    /\ state.risk_assessment.volatility = Number(Pct(15, 0))
    /\ state.risk_assessment.risk_level = RiskMedium
C20_WitnessLimit25 ==
    /\ pc = "call" /\ LastCalled(visited) = "risk_analyst"
    /\ state.risk_assessment # EmptyDict
    /\ state.risk_assessment.volatility = Number(Pct(25, 0))
    /\ state.risk_assessment.risk_level = RiskHigh
C20_WitnessLimit40 ==
    /\ pc = "call" /\ LastCalled(visited) = "risk_analyst"
    /\ state.risk_assessment # EmptyDict
    /\ state.risk_assessment.volatility = Number(Pct(40, 0))
    /\ state.risk_assessment.risk_level = RiskVeryHigh
C20_WitnessNoVolatility ==
    /\ pc = "call" /\ LastCalled(visited) = "risk_analyst"
    /\ state.risk_assessment # EmptyDict
    /\ state.risk_assessment.volatility = NoNumber
    /\ state.risk_assessment.risk_level = RiskUnknown

-----------------------------------------------------------------------------
(* The response generator's failure path *)

\* response_generator_node reaches chain.invoke on st: nothing before the try block raises
ReachesModelCall(st, c) == ~response_generator_raises(st, c)

\* C21: whenever the response generator calls the language model and the call fails, the
\* step does not raise: it returns final_response = the fixed apology followed by the
\* error text, and error_log with exactly one more entry (the old entries kept), it
\* returns no decision_context, and its edge leads to END.
C21_GenerationFailureAbsorbed ==
    [][visited' = Append(visited, "response_generator") =>
       \A c \in Calls("response_generator", collab) :
             (ReachesModelCall(state, c) /\ ~c.llm_ok /\ StepIsCall("response_generator", c))
                 => /\ pc' = "call"
                    /\ ret'.final_response = Apology \o ErrorInfo \o c.llm_error
                    /\ state'.final_response = ret'.final_response
                    /\ Len(state'.error_log) = Len(state.error_log) + 1
                    /\ SubSeq(state'.error_log, 1, Len(state.error_log)) = state.error_log
                    /\ state'.error_log[Len(state'.error_log)] = ErrGenerate \o c.llm_error
                    /\ "decision_context" \notin DOMAIN ret'
                    /\ nxt' = <<END>>]_vars

\* The response generator was called after an analyst, the model call failed, and the
\* apology is the final response
C21_Witness ==
    /\ pc = "call"
    /\ LastCalled(visited) = "response_generator"
    /\ Called("risk_analyst")
    /\ "final_response" \in DOMAIN ret
    /\ ret.final_response = Apology \o ErrorInfo \o <<"model call failed">>
    /\ state.error_log # <<>>

\* C22: when the model call succeeds, the outcome of the persistence call does not
\* matter to the step: it does not raise, and final_response and decision_context are
\* what they are when store_interaction succeeds.
C22_PersistenceFireAndForget ==
    [][visited' = Append(visited, "response_generator") =>
       \A c \in Calls("response_generator", collab) :
             (ReachesModelCall(state, c) /\ c.llm_ok /\ StepIsCall("response_generator", c))
                 => /\ pc' = "call"
                    /\ "decision_context" \in DOMAIN ret'
                    /\ ret' = response_generator_node(state, [c EXCEPT !.store_ok = TRUE]).partial
                    /\ state'.error_log = state.error_log]_vars

-----------------------------------------------------------------------------
(* The persistence request *)

\* The names of the agents in an audit log, in its order
AgentsOf(outputs) == [i \in DOMAIN outputs |-> outputs[i].agent]

\* C28: a call of the response generator whose model call succeeds on a state with a
\* non-empty user_id issues exactly one store_interaction call, carrying the user id, the
\* question, the model's response, a decision context built from the state, and the agent
\* names of agent_outputs in order; a call whose model call fails, or on an empty user_id,
\* issues none; no other node issues one, and a rejecting validator's edge leads to END.
C28_OnePersistenceRequest ==
    [][
        /\ visited' = Append(visited, "response_generator") =>
           \A c \in Calls("response_generator", collab) :
                  (ReachesModelCall(state, c) /\ StepIsCall("response_generator", c))
                      => IF c.llm_ok /\ state.user_id # ""
                         THEN /\ Len(store_calls') = Len(store_calls) + 1
                              /\ SubSeq(store_calls', 1, Len(store_calls)) = store_calls
                              /\ LET req == store_calls'[Len(store_calls')]
                                 IN  /\ req.user_id = state.user_id
                                     /\ req.query = state.original_question
                                     /\ req.response = c.response
                                     /\ req.participating_agents = AgentsOf(state.agent_outputs)
                                     /\ DOMAIN req.decision_context =
                                           {"intent", "symbol", "company_name", "risk_profile",
                                            "capital", "risk_level", "volatility",
                                            "sentiment_score"}
                                     /\ req.decision_context.symbol
                                           = Get(Get(Get(state, "intent_classification", EmptyDict),
                                                     "entities", EmptyDict), "symbol", Unknown)
                         ELSE store_calls' = store_calls
        /\ (\E n \in Nodes \ {"response_generator"} : visited' = Append(visited, n))
               => store_calls' = store_calls
        /\ (visited' = Append(visited, "validator") /\ pc' = "call"
               /\ ~ret'.validation_result.valid)
               => nxt' = <<END>>
        /\ Len(store_calls') <= 1]_vars

\* The three analysts ran, the model answered, and the one request names them in order
C28_Witness ==
    /\ pc = "call"
    /\ LastCalled(visited) = "response_generator"
    /\ Len(store_calls) = 1
    /\ store_calls[1].participating_agents
          = <<"market_analyst", "news_analyst", "risk_analyst">>
    /\ store_calls[1].query # <<>>
    /\ "final_response" \in DOMAIN ret
    /\ ret.final_response = store_calls[1].response

\* The model call failed on a state with a user id, and no request was issued
C28_WitnessNoRequest ==
    /\ pc = "call"
    /\ LastCalled(visited) = "response_generator"
    /\ state.user_id # ""
    /\ store_calls = <<>>
    /\ "final_response" \in DOMAIN ret
    /\ ret.final_response = Apology \o ErrorInfo \o <<"model call failed">>

-----------------------------------------------------------------------------
(* The profile fallback of the response generator *)

\* The entities the response generator reads from st
EntitiesOf(st) == Get(Get(st, "intent_classification", EmptyDict), "entities", EmptyDict)

\* The query specified the field: the entities hold a value for it that is not None
QuerySpecifiesRiskProfile(st) ==
    "risk_profile" \in DOMAIN EntitiesOf(st) /\ EntitiesOf(st).risk_profile # NoneVal
QuerySpecifiesCapital(st) ==
    "capital" \in DOMAIN EntitiesOf(st) /\ EntitiesOf(st).capital # NoNumber

\* The user has interaction history
HasHistory(st, c) == st.user_id # "" /\ Get(c.user_profile, "interaction_count", 0) > 0

\* The profile holds a value for the field
ProfileHoldsRiskProfile(c) ==
    /\ "risk_profile" \in DOMAIN c.user_profile
    /\ c.user_profile.risk_profile \notin {NoneVal, Unknown}
ProfileHoldsCapital(c) ==
    /\ "typical_investment_amount" \in DOMAIN c.user_profile
    /\ c.user_profile.typical_investment_amount # NoNumber

\* C29: in a call of the response generator that returns a decision context, risk_profile
\* and capital are the query's values whenever the query specified them; a value other
\* than what the entities give appears only when the query did not specify the field, the
\* user has interaction history and the profile holds a value for the field.
C29_QueryValuesWin ==
    [][visited' = Append(visited, "response_generator") =>
       \A c \in Calls("response_generator", collab) :
             (/\ ReachesModelCall(state, c) /\ c.llm_ok
              /\ StepIsCall("response_generator", c)
              /\ pc' = "call" /\ "decision_context" \in DOMAIN ret')
                 => LET dc == ret'.decision_context
                        e == EntitiesOf(state)
                    IN  /\ QuerySpecifiesRiskProfile(state) => dc.risk_profile = e.risk_profile
                        /\ QuerySpecifiesCapital(state) => dc.capital = e.capital
                        /\ dc.risk_profile # Get(e, "risk_profile", Unknown)
                              => /\ ~QuerySpecifiesRiskProfile(state)
                                 /\ HasHistory(state, c)
                                 /\ ProfileHoldsRiskProfile(c)
                        /\ dc.capital # Get(e, "capital", Number(0))
                              => /\ ~QuerySpecifiesCapital(state)
                                 /\ HasHistory(state, c)
                                 /\ ProfileHoldsCapital(c)]_vars

-----------------------------------------------------------------------------
(* The volatility the risk analyst uses *)

\* The estimate from a Bollinger position p: |50 - p| * 0.4
EstimateFrom(p) == (Abs(Pct(50, 0) - p) * 4) \div 10

\* The Bollinger position market_data holds in st
PositionIn(st) == st.market_data.indicators.bollinger_position_percent

\* C27: in a call of the risk analyst that assesses a symbol: a volatility_percent
\* reported by its own tool call is the volatility it records, whatever market_data
\* holds; when the tool reports none and market_data.indicators holds a Bollinger
\* position p, it records |50 - p| * 0.4 and the band of that value; when neither
\* source gives a value, the volatility is unset.
C27_VolatilitySource ==
    [][visited' = Append(visited, "risk_analyst") =>
       \A c \in Calls("risk_analyst", collab) :
             (StepIsCall("risk_analyst", c) /\ pc' = "call" /\ c.tools_ok
                 /\ Consults("risk_analyst", state)) =>
                 LET ra == ret'.risk_assessment
                 IN  /\ c.tool_supplies => ra.volatility = c.tool_volatility
                     /\ (~c.tool_supplies /\ HasBollingerPosition(state)) =>
                           /\ ra.volatility = Number(EstimateFrom(PositionIn(state)[1]))
                           /\ ra.risk_level = BandOf(EstimateFrom(PositionIn(state)[1]))
                     /\ (~c.tool_supplies /\ ~HasBollingerPosition(state)) =>
                           ra.volatility = NoNumber]_vars

\* The market analyst left the position 12.51, the tool reported no volatility, and the
\* risk analyst recorded 14.996 and the band 'low'
C27_Witness ==
    /\ pc = "call"
    /\ LastCalled(visited) = "risk_analyst"
    /\ Called("market_analyst")
    /\ HasBollingerPosition(state)
    /\ PositionIn(state) = Number(Pct(12, 51))
    /\ state.risk_assessment # EmptyDict
    /\ state.risk_assessment.volatility = Number(14996)
    /\ state.risk_assessment.risk_level = RiskLow

\* market_data holds the position 150 (estimate 40) and the tool's 30 is recorded
C27_WitnessPrecedence ==
    /\ pc = "call"
    /\ LastCalled(visited) = "risk_analyst"
    /\ HasBollingerPosition(state)
    /\ PositionIn(state) = Number(Pct(150, 0))
    /\ state.risk_assessment # EmptyDict
    /\ state.risk_assessment.volatility = Number(Pct(30, 0))
    /\ state.risk_assessment.risk_level = RiskHigh

-----------------------------------------------------------------------------
(* Routing totality *)

\* C30: whatever a routing function returns (the validator's, the coordinator's, the
\* market analyst's and the news analyst's, each called where build_graph calls it, on
\* what the validator and the coordinator left) is one of the targets registered for
\* that node's conditional edge.
C30_RoutesRegistered ==
    /\ pc = "routed_after_validator" => nxt \in EdgeTargets("validator")
    /\ pc = "routed" => nxt \in EdgeTargets("coordinator")
    /\ pc = "routed_after_market" => nxt \in EdgeTargets("market_analyst")
    /\ pc = "routed_after_news" => nxt \in EdgeTargets("news_analyst")

\* The three routers after the coordinator were called in turn on a three-analyst plan
C30_Witness ==
    /\ pc = "routed_after_news"
    /\ state.coordinator_decision.next_agent = PlanAll
    /\ visited = <<"coordinator_node", "route_based_on_coordinator_decision",
                   "route_after_market_analyst", "route_after_news_analyst">>
    /\ nxt = <<"risk_analyst">>

\* The validator's router was called on a rejection, and the coordinator's router on the
\* plan 'unknown'
C30_WitnessRejected ==
    /\ pc = "routed_after_validator"
    /\ ~state.validation_result.valid
    /\ nxt = <<END>>
C30_WitnessUnknownPlan ==
    /\ pc = "routed"
    /\ "coordinator_decision" \in DOMAIN state
    /\ state.coordinator_decision.next_agent = PlanUnknown
    /\ nxt = <<"market_analyst">>

-----------------------------------------------------------------------------
(* Who writes which key *)

LogKeys == {"agent_outputs", "error_log"}
NonLogKeys(partial) == DOMAIN partial \ LogKeys

\* Each node called so far, after the first, is the one the edge of the node before it
\* selects.  The routing functions read validation_result and coordinator_decision only.
FollowsEdges ==
    \A i \in 1..(Len(visited) - 1) : <<visited[i + 1]>> = RouteAfter(visited[i], state)

\* C25: in a sequence of node calls that follows the edges of the graph, no two calls
\* return the same key other than agent_outputs and error_log; so every such key of the
\* state holds the value of the one call that returned it, as it would if all the
\* partials were merged at once.
C25_DisjointWrites ==
    (pc = "call" /\ FollowsEdges) =>
        /\ \A i, j \in 1..Len(returned) :
              i < j => NonLogKeys(returned[i]) \cap NonLogKeys(returned[j]) = {}
        /\ \A i \in 1..Len(returned) : \A k \in NonLogKeys(returned[i]) :
              state[k] = returned[i][k]

\* The market analyst and then, along its edge, the response generator returned partials
C25_Witness ==
    /\ pc = "call"
    /\ FollowsEdges
    /\ visited = <<"market_analyst", "response_generator">>
    /\ Len(returned) = 2
    /\ "market_data" \in DOMAIN returned[1]
    /\ {"final_response", "decision_context"} \subseteq DOMAIN returned[2]

\* The validator and then the coordinator returned partials
C25_WitnessFromValidator ==
    /\ pc = "call"
    /\ FollowsEdges
    /\ visited = <<"validator", "coordinator">>
    /\ Len(returned) = 2
    /\ "coordinator_decision" \in DOMAIN returned[2]

-----------------------------------------------------------------------------
(* What a step leaves alone *)

\* C26: a call of a node changes the state only through the keys it returns: user_id and
\* session_id stay what create_initial_state made them; every key the call does not
\* return (every key, when the call raises) keeps its value, agent_outputs and error_log
\* included, which change only by being returned as a list that extends the old one; the
\* state gains the returned keys and no other.  The validator returns original_question
\* (the stripped question cut to 500 characters) when the question is valid, and does not
\* return it and leaves it as it was when it rejects.
C26_Frame ==
    [][(pc = "call" /\ visited' # visited) =>
          /\ state'.user_id = input.user_id
          /\ state'.session_id = state.session_id
          /\ \A k \in DOMAIN state :
                (pc' = RAISED \/ k \notin DOMAIN ret') => state'[k] = state[k]
          /\ DOMAIN state' = DOMAIN state \cup (IF pc' = RAISED THEN {} ELSE DOMAIN ret')
          /\ \A k \in LogKeys :
                (pc' = "call" /\ k \in DOMAIN ret') =>
                    (state'[k] = ret'[k] /\ IsPrefix(state[k], ret'[k]))
          /\ visited' = Append(visited, "validator") =>
                IF ret'.validation_result.valid
                THEN /\ "original_question" \in DOMAIN ret'
                     /\ state'.original_question
                           = Prefix(Strip(state.original_question), MAX_QUESTION_LEN)
                ELSE /\ "original_question" \notin DOMAIN ret'
                     /\ state'.original_question = state.original_question]_vars

\* The validator replaced a padded question by the stripped one, and the coordinator
\* then ran on it, the user id still the caller's
C26_Witness ==
    /\ pc = "call"
    /\ visited = <<"validator", "coordinator">>
    /\ input.question = <<" ", "s", "t", "o", "c", "k", " ">>
    /\ state.original_question = <<"s", "t", "o", "c", "k">>
    /\ input.user_id # ""
    /\ state.user_id = input.user_id

\* The validator rejected a blank question and left it as it was
C26_WitnessRejected ==
    /\ pc = "call"
    /\ visited = <<"validator">>
    /\ ~state.validation_result.valid
    /\ input.question = <<" ">>
    /\ state.original_question = <<" ">>

\* An analyst returned a longer audit log and the response generator, which returns
\* neither list, left it alone
C26_WitnessLists ==
    /\ pc = "call"
    /\ visited = <<"market_analyst", "response_generator">>
    /\ Len(state.agent_outputs) = 1
    /\ "agent_outputs" \notin DOMAIN ret

-----------------------------------------------------------------------------
(* Two runs *)

\* The run has created its state container
Started(r) == runs[r].container # 0
\* The state of run r
StateOf(r) == heap[runs[r].container]

OwnEntries(r, k) ==
    {runs[r].returned[j][k][Len(runs[r].returned[j][k])] :
        j \in {i \in DOMAIN runs[r].returned : k \in DOMAIN runs[r].returned[i]}}

\* C24: under every interleaving of two runs: the runs hold different state containers;
\* agent_outputs and error_log of a run hold only entries its own steps appended; a step
\* of one run changes neither the state nor the progress of the other.
C24_RunsIsolated ==
    [][/\ (Started(1) /\ Started(2))' => (runs[1].container # runs[2].container)'
       /\ \A r \in RunIds : Started(r)' =>
             \A k \in LogKeys : \A i \in DOMAIN StateOf(r)'[k] :
                 StateOf(r)'[k][i] \in OwnEntries(r, k)'
       /\ \A r \in RunIds : \A o \in RunIds \ {r} :
             (runs'[r] # runs[r] /\ Started(o)) =>
                 /\ runs'[o] = runs[o]
                 /\ heap'[runs[o].container] = heap[runs[o].container]]_vars

\* Two runs on different questions were both rejected, and each holds its own question
\* and its own one-entry audit log
C24_Witness ==
    /\ runs[1].pc = "returned" /\ runs[2].pc = "returned"
    /\ runs[1].container # runs[2].container
    /\ runs[1].input.question # runs[2].input.question
    /\ Len(StateOf(1).agent_outputs) = 1
    /\ Len(StateOf(2).agent_outputs) = 1
    /\ StateOf(1).original_question # StateOf(2).original_question

-----------------------------------------------------------------------------
(* The plan and the analysts of a run *)

\* The analysts that executed in the run
ExecutedAnalysts == {visited[i] : i \in 1..Len(visited)} \cap AnalystNames

\* The plan the coordinator emits for the classification this run's collaborator gives
PlanOfRun == NextAgentFor(Lower(classify_intent(Trimmed, collab).intent))

\* C31: in a finished run of a valid question the analysts that executed are the
\* analysts the coordinator's plan names; for the plan 'unknown' the run executes the
\* market analyst and then the response generator, and no other analyst.
C31_PlanExecuted ==
    (RunOver /\ ValidQuestion) =>
        /\ ExecutedAnalysts =
              IF PlanOfRun = PlanUnknown THEN {"market_analyst"}
              ELSE {PlanOfRun[i] : i \in 1..Len(PlanOfRun)} \cap AnalystNames
        /\ PlanOfRun = PlanUnknown =>
              visited = <<"validator", "coordinator", "market_analyst", "response_generator">>

-----------------------------------------------------------------------------
(* Termination *)

\* There is a walk of k nodes along the registered edges that starts at node n
RECURSIVE CanWalk(_, _)
CanWalk(n, k) ==
    IF k <= 1 THEN TRUE
    ELSE \E t \in EdgeTargets(n) : t[1] \in Nodes /\ CanWalk(t[1], k - 1)

\* C32: every run reaches the end marker, after at most six node executions and without
\* an exception, the node it is at can always be executed, and the graph has no cycle:
\* along the registered edges no walk visits more nodes than the six the graph has.
C32_Terminates ==
    /\ [](/\ Len(visited) <= 6
          /\ pc \notin {RAISED, "escaped"}
          /\ pc \in Nodes => Calls(pc, collab) # {}
          /\ \A n \in Nodes : ~CanWalk(n, Cardinality(Nodes) + 1))
    /\ <>(pc = END)

C32_Witness ==
    /\ pc = END
    /\ visited # <<>>
    /\ CanWalk("validator", Cardinality(Nodes))

-----------------------------------------------------------------------------
(* The stock-bot client's retries *)

\* C33: a call of query makes at most max_retries + 1 requests, makes none after one
\* that did not raise and returns that one's result, never raises, never leaves the
\* loop without a result, and returns the fixed string once max_retries + 1 requests
\* have all raised.
C33_BoundedRetries ==
    LET q == query_call
        n == Len(q.requests)
    IN  /\ n <= q.max_retries + 1
        /\ \A i \in 1..(n - 1) : q.requests[i].raised
        /\ q.attempts = Cardinality({i \in 1..n : q.requests[i].raised})
        /\ q.at \in {"loop", "returned"}
        /\ q.at = "loop" => q.attempts <= q.max_retries
        /\ (n > 0 /\ ~q.requests[n].raised) =>
              (q.at = "returned" /\ q.result = q.requests[n].value)
        /\ (n = q.max_retries + 1 /\ q.requests[n].raised) =>
              (q.at = "returned" /\ q.result = NoValidAnswer)
        /\ q.at = "returned" =>
              (n > 0 /\ (q.requests[n].raised => n = q.max_retries + 1))

C33_Witness ==
    /\ query_call.at = "returned"
    /\ query_call.max_retries = 2
    /\ Len(query_call.requests) = 3
    /\ query_call.requests[3].raised
    /\ query_call.result = NoValidAnswer
    /\ query_call.sleeps = 2

\* A request that succeeds after one that raised ends the call with its result.
C33_WitnessRetrySucceeds ==
    /\ query_call.at = "returned"
    /\ Len(query_call.requests) = 2
    /\ query_call.requests[1].raised
    /\ ~query_call.requests[2].raised
    /\ query_call.result = <<"answer">>

-----------------------------------------------------------------------------
(* The stock-bot singleton *)

\* C34: a process constructs at most one StockQueryBot; once a call has returned an
\* instance every later call returns that instance, whatever its arguments, and
\* constructs nothing; a call that returns None attempted a construction that failed and
\* left nothing cached, and every call made before the first success attempts one.
C34_Singleton ==
    LET L == singleton.log
    IN  /\ Len(singleton.objects) <= 1
        /\ \A i, j \in 1..Len(L) :
              (i < j /\ L[i].result # NoObject) =>
                  (L[j].result = L[i].result /\ ~L[j].constructed)
        /\ \A i \in 1..Len(L) :
              /\ L[i].result = NoObject => (L[i].constructed /\ L[i].cached = NoObject)
              /\ L[i].result # NoObject => L[i].cached = L[i].result
              /\ (\A h \in 1..(i - 1) : L[h].result = NoObject) => L[i].constructed
        /\ singleton.constructions = Cardinality({i \in 1..Len(L) : L[i].constructed})

C34_Witness ==
    /\ Len(singleton.log) = 3
    /\ singleton.log[1].result = NoObject
    /\ singleton.log[2].fn = "get_stock_query_bot"
    /\ singleton.log[2].args = <<"k1", NoneVal, NoneVal>>
    /\ singleton.log[2].result # NoObject
    /\ singleton.log[3].args = <<"k2", "b1", "u1">>
    /\ singleton.log[3].result = singleton.log[2].result
    /\ singleton.objects[1].api_key = "k1"
    /\ singleton.constructions = 2

\* Toolkit.get_stock_bot returns the instance an earlier get_stock_query_bot call built.
C34_WitnessToolkit ==
    /\ Len(singleton.log) = 2
    /\ singleton.log[1].fn = "get_stock_query_bot"
    /\ singleton.log[1].result # NoObject
    /\ singleton.log[2].fn = "Toolkit.get_stock_bot"
    /\ singleton.log[2].result = singleton.log[1].result

-----------------------------------------------------------------------------
(* The memory system's failures and record ids *)

\* The call was made with the keywords store_interaction declares
MatchesSignature(call) == call.site # "response_generator_node"

\* The collection is missing, or the collection's operation itself failed
BackendFails(call) == ~memory.has_collection \/ call.backend = "raises"

\* A call that matches the signature never raises, and returns "" or [] and leaves the
\* records alone when the collection is missing or its operation fails.
BodyAbsorbsFailures ==
    \A i \in 1..Len(memory.log) :
        LET call == memory.log[i]
        IN  MatchesSignature(call) =>
                /\ ~call.raised
                /\ BackendFails(call) => (call.result = <<>> /\ call.after = call.before)

\* C36: no call of store_interaction, retrieve_history or semantic_search raises to its
\* caller; when the collection is missing or its operation fails the result is the empty
\* string or the empty list and the stored records are unchanged.
C36_NeverRaises ==
    \A i \in 1..Len(memory.log) :
        LET call == memory.log[i]
        IN  /\ ~call.raised
            /\ BackendFails(call) => (call.result = <<>> /\ call.after = call.before)
            /\ call.op # "store_interaction" => call.after = call.before

\* C37: two store_interaction calls that both succeed return distinct record ids, and a
\* call whose collection is there and does not fail of itself succeeds and has its own
\* record stored: no other interaction, of the same user in the same second or not,
\* replaces it or keeps it out.
C37_DistinctRecordIds ==
    LET L == memory.log
        stores == {i \in 1..Len(L) : L[i].op = "store_interaction" /\ MatchesSignature(L[i])}
    IN  /\ \A i, j \in stores :
              (i < j /\ L[i].result # <<>> /\ L[j].result # <<>>) =>
                  L[i].result # L[j].result
        /\ \A i \in stores :
              ~BackendFails(L[i]) =>
                  /\ L[i].result # <<>>
                  /\ \E n \in 1..Len(memory.records) :
                        /\ memory.records[n].id = L[i].result
                        /\ memory.records[n].document = Document(L[i].query, <<"answer">>)

-----------------------------------------------------------------------------
(* The command line's run_query *)

\* The bot's answer is one run_query stores and returns at once
Usable(o) == ~o.raised /\ o.value # <<>> /\ o.value # NoValidAnswer

\* C35: run_query never raises and returns a result; without a stock bot the result is
\* the 'not configured' message and neither the bot nor the memory system is called;
\* the bot is asked at most twice, the second time only when the query has a stock
\* keyword and the first answer raised or was not usable; the memory system is asked to
\* store at most once, only when the call does not stream, the query has a stock keyword
\* and the bot's first answer was usable, and then that answer is what is stored and
\* returned.
C35_RunQuery ==
    LET c == cli
        asked == Len(c.bot_calls)
    IN  /\ c.at \in {"start", "fallback", "returned"}
        /\ c.at = "returned" => c.result # NoneVal
        /\ c.at = "fallback" => asked = 1
        /\ ~c.has_bot =>
              /\ asked = 0 /\ c.stored = <<>> /\ memory.records = <<>>
              /\ c.at = "returned" => c.result = NotConfigured
        /\ asked <= 2
        /\ asked = 2 => (c.is_stock_query /\ ~Usable(c.bot_calls[1]))
        /\ (c.at = "returned" /\ c.has_bot) =>
              c.result = IF c.bot_calls[asked].raised
                         THEN QueryFailed \o c.bot_calls[asked].value
                         ELSE c.bot_calls[asked].value
        /\ Len(c.stored) <= 1
        /\ Len(memory.records) <= Len(c.stored)
        /\ c.stored # <<>> =>
              /\ ~c.stream /\ c.is_stock_query /\ c.has_memory
              /\ asked = 1 /\ Usable(c.bot_calls[1])
              /\ c.stored[1] = [user_id |-> c.user_id, query |-> c.query,
                                response |-> c.bot_calls[1].value]
              /\ c.at = "returned" /\ c.result = c.bot_calls[1].value

\* The bot raised on both routes and run_query returned the failure message.
C35_Witness ==
    /\ cli.at = "returned"
    /\ Len(cli.bot_calls) = 2
    /\ cli.bot_calls[1].raised
    /\ cli.bot_calls[2].raised
    /\ cli.result = QueryFailed \o <<"bot error">>
    /\ cli.stored = <<>>

\* A usable answer was stored once and returned.
C35_WitnessStored ==
    /\ cli.at = "returned"
    /\ Len(cli.stored) = 1
    /\ Len(memory.records) = 1
    /\ memory.records[1].document = Document(cli.query, <<"answer">>)
    /\ cli.result = <<"answer">>

\* No stock bot: the fixed message, and no call.
C35_WitnessNotConfigured ==
    /\ cli.at = "returned"
    /\ ~cli.has_bot
    /\ cli.is_stock_query
    /\ cli.result = NotConfigured

\* An unusable first answer on the direct route is followed by a second request.
C35_WitnessSecondRequest ==
    /\ cli.at = "returned"
    /\ Len(cli.bot_calls) = 2
    /\ cli.bot_calls[1] = [raised |-> FALSE, value |-> NoValidAnswer]
    /\ cli.result = <<"answer">>

====
